---- MODULE Spec2Model ----
(***************************************************************************)
(* Model of the aggregator pipeline: the Runnable "run forever" loop       *)
(* (runnable.py), the Mode S ingestion loop (mode_s/ingester.py), the      *)
(* SWIM flight-plan callback (swim_ingester.py), the correlator            *)
(* (correlator.py) and the TTL primitives it uses (util.py).               *)
(*                                                                         *)
(* asyncio runs every coroutine on one thread: the code between two        *)
(* suspension points is atomic.  The suspension points are                 *)
(* open_connection, sleep(1) and readline in the ingester and              *)
(* in_queue.get() in the correlator; pc[t] names the one task t is         *)
(* suspended at.  stop() is a plain method (called from a signal handler)  *)
(* and can run between any two atomic blocks.                              *)
(*                                                                         *)
(* Python values: None is modelled by None (-1) for scalars and by NoFlight*)
(* for the flight-plan reference; strings (callsign, squawk) are           *)
(* abstracted to natural-number codes; connection handles are 1, 2, ...    *)
(***************************************************************************)
EXTENDS Integers, Sequences, FiniteSets, TLC

VARIABLES
    running,        \* Runnable._running, per task
    pc,             \* where each task's run() coroutine is
    raised,         \* the exception that ended run(), per task ("" = none)
    stop_called,    \* history: stop() has been called on the task
    reader,         \* ModeSIngester._reader (None or a connection handle)
    writer,         \* ModeSIngester._writer
    opened,         \* number of connections open_connection has returned
    closed,         \* handles whose writer.close() has been called
    errors_seen,    \* ModeSIngester._errors_seen
    decoding_logged,    \* history: per DecodingError text, the number of
                    \* "decoding error" lines logged for it
    decoding_suppressed,\* history: the DecodingError texts that were raised
                    \* again and not logged
    dropped,        \* history: the ingester's step() caught QueueShutDown
                    \* from put_nowait and discarded the message
    fails,          \* history: failed connection attempts
    eofs,           \* history: empty reads (remote closed)
    transitions,    \* history: CONNECTING -> RUNNING transitions
    in_queue,       \* Correlator.in_queue (asyncio.Queue, FIFO)
    is_shutdown,    \* Correlator.in_queue._is_shutdown
    aircraft,       \* Correlator.aircraft._underlying (LeakyDictionary)
    flight_plans,   \* Correlator.flight_plans, or Missing: attribute not set
    flights,        \* Correlator.flights
    taken,          \* history: items in_queue.get() has returned, in order
    update_calls,   \* history: number of update_cb invocations
    snapshot,       \* history: argument of the last update_cb invocation
    now,            \* time.time(), in seconds
    objects,        \* the Aircraft objects created so far; a reference to
                    \* one is its index
    table,          \* a LeakyDictionary's _underlying holding references
    delivered,      \* the references in the list values() returned last
    prior_positions,\* Decoder._prior_positions._underlying
    prior_cpr_msgs, \* Decoder._prior_cpr_msgs: <<even, odd>> _underlying
    located,        \* history: the last call of Decoder._position (<<>> if
                    \* none, else a one-element sequence)
    lifetimes_expirations,  \* per instance: NoAttribute, or the set
                    \* holding its __lifetimes_expirations__ dict
    lifetimes_value,\* per instance and field: __lifetimes_value__<field>
    lifetimes_set_at,       \* history: when each field was last set
    lifetimes_got,  \* history: what the last getter call did (<<>> if none)
    leaky,          \* a LeakyDictionary's _underlying holding plain values
    leaky_inserted, \* history: per key, the last insertion (time, value)
    leaky_got,      \* history: what the last lookup did (<<>> if none)
    address_from_int,   \* the last ICAOAddress(<int>) call (<<>> if none)
    address_from_str,   \* the last ICAOAddress(<str>) call (<<>> if none)
    commb_decoded       \* the last CommBReply.from_hex call (<<>> if none)

vars == <<running, pc, raised, stop_called, reader, writer, opened, closed,
          errors_seen, decoding_logged, decoding_suppressed, dropped, fails, eofs,
          transitions, in_queue,
          is_shutdown, aircraft,
          flight_plans, flights, taken, update_calls, snapshot, now,
          objects, table, delivered, prior_positions, prior_cpr_msgs,
          located, lifetimes_expirations, lifetimes_value, lifetimes_set_at,
          lifetimes_got, leaky, leaky_inserted, leaky_got, address_from_int,
          address_from_str, commb_decoded>>

ingesterVars == <<reader, writer, opened, closed, errors_seen, decoding_logged,
                  decoding_suppressed, dropped, fails, eofs, transitions>>
correlatorVars == <<aircraft, flight_plans, flights, taken, update_calls,
                    snapshot>>
\* the state of the objects of util.py and correlator.py when they are
\* exercised on their own, outside the pipeline
libraryVars == <<objects, table, delivered, prior_positions, prior_cpr_msgs,
                 located, lifetimes_expirations, lifetimes_value,
                 lifetimes_set_at, lifetimes_got, leaky, leaky_inserted,
                 leaky_got, address_from_int, address_from_str, commb_decoded>>
messageVars == <<commb_decoded>>
addressVars == <<address_from_int, address_from_str>>
leakyVars == <<leaky, leaky_inserted, leaky_got>>
lifetimesVars == <<lifetimes_expirations, lifetimes_value, lifetimes_set_at,
                   lifetimes_got>>
tableVars == <<objects, table, delivered>>
decoderVars == <<prior_positions, prior_cpr_msgs, located>>

-----------------------------------------------------------------------------
(* Bounds of the model *)

MaxFails == 1       \* connection attempts the remote refuses
MaxEOFs == 1        \* times the remote closes an established connection
MaxItems == 2       \* items ever submitted to in_queue
MaxQueue == 1       \* items waiting in in_queue
MaxAddr == 1        \* ICAO addresses 1..MaxAddr
MaxErr == 1         \* distinct DecodingError texts 1..MaxErr
MaxTime == 12       \* the clock stops advancing here
MaxObjects == 2     \* Aircraft objects created in the table of SpecTable
MaxZone == 2        \* latitude zones 1..MaxZone of the CPR messages
MaxInst == 2        \* instances 1..MaxInst of the class with expiring fields
MaxNear == 20       \* integers tried within MaxNear of each end of the ICAO range

-----------------------------------------------------------------------------
(* Values *)

None == -1
TickSteps == {5, 6}     \* seconds the clock advances at a time
Missing == "AttributeError"
NoFlight == [cls |-> "None"]

Tasks == {"ModeSIngester", "Correlator"}
Addrs == 1..MaxAddr
LeakyKeys == 1..(MaxAddr + 1)     \* the keys of the dictionary of SpecLeaky
ErrTexts == 1..MaxErr


-----------------------------------------------------------------------------
(* util.py: ExpiringValue.  A record {_expiry_secs, _value, _expires_after}. *)

ExpiringValue(expiry_secs) ==
    [expiry_secs |-> expiry_secs, value |-> None, expires_after |-> 0]

ExpiringValue_get(ev, t) ==
    IF ev.value = None \/ t > ev.expires_after THEN None ELSE ev.value

ExpiringValue_set(ev, value, t) ==
    [ev EXCEPT !.value = value, !.expires_after = t + ev.expiry_secs]

-----------------------------------------------------------------------------
(* util.py: LeakyDictionary.  _underlying is a function key -> (timestamp,   *)
(* value) whose domain is the set of stored keys.                            *)

\* an expiry test that never finds an entry expired
LeakyDictionary_stale_never(u, key, expiry_secs, t) ==
    FALSE

\* an expiry test that drops an entry already at the age expiry_secs
LeakyDictionary_stale_at_expiry(u, key, expiry_secs, t) ==
    t - u[key].timestamp >= expiry_secs

\* `time.time() - timestamp > self._expiry_secs`
LeakyDictionary_stale(u, key, expiry_secs, t) ==
    t - u[key].timestamp > expiry_secs

\* __getitem__ raises KeyError: the key is missing, or stored and expired
LeakyDictionary_getitem_KeyError(u, key, expiry_secs, t) ==
    IF key \notin DOMAIN u THEN TRUE
    ELSE LeakyDictionary_stale(u, key, expiry_secs, t)

\* __getitem__'s effect on _underlying: an expired entry is deleted
LeakyDictionary_getitem_underlying(u, key, expiry_secs, t) ==
    IF key \in DOMAIN u /\ LeakyDictionary_stale(u, key, expiry_secs, t)
    THEN [k \in DOMAIN u \ {key} |-> u[k]]
    ELSE u

\* get(): the value, or None where __getitem__ raises KeyError
LeakyDictionary_get(u, key, expiry_secs, t) ==
    IF LeakyDictionary_getitem_KeyError(u, key, expiry_secs, t) THEN None
    ELSE u[key].value

\* __contains__: False where __getitem__ raises KeyError
LeakyDictionary_contains(u, key, expiry_secs, t) ==
    ~LeakyDictionary_getitem_KeyError(u, key, expiry_secs, t)

\* a __setitem__ that keeps the timestamp of an entry it replaces
LeakyDictionary_setitem_keeps_timestamp(u, key, value, t) ==
    [k \in DOMAIN u \cup {key} |->
        IF k = key
        THEN [timestamp |-> IF key \in DOMAIN u THEN u[key].timestamp ELSE t,
              value |-> value]
        ELSE u[k]]

\* __setitem__: `self._underlying[key] = (time.time(), value)`
LeakyDictionary_setitem(u, key, value, t) ==
    [k \in DOMAIN u \cup {key} |->
        IF k = key THEN [timestamp |-> t, value |-> value] ELSE u[k]]

\* a values() that stamps the entries it keeps with the time of the call
LeakyDictionary_values_underlying_refreshes(u, expiry_secs, t) ==
    [k \in {j \in DOMAIN u : ~LeakyDictionary_stale(u, j, expiry_secs, t)} |->
        [u[k] EXCEPT !.timestamp = t]]

\* values(): the entries that survive the sweep ...
LeakyDictionary_values_underlying(u, expiry_secs, t) ==
    [k \in {j \in DOMAIN u : ~LeakyDictionary_stale(u, j, expiry_secs, t)} |-> u[k]]

\* ... and the list returned (its order, the dict's insertion order, is not
\* modelled: the result is the set of the values)
LeakyDictionary_values(u, expiry_secs, t) ==
    {u[k].value : k \in {j \in DOMAIN u : ~LeakyDictionary_stale(u, j, expiry_secs, t)}}

-----------------------------------------------------------------------------
(* Items of the correlator's input queue *)

Altitudes == {350}
Squawks == {7700}
Callsigns == {1}
Positions == {1}
Speeds == {450}
Tracks == {90}
VerticalSpeeds == {0}
AltitudeTypes == {"BARO_PRESSURE", "GNSS"}

\* mode_s/message.py: the decoded messages, one record shape per class
SurveillanceReplyAltitudeMessages ==
    [cls : {"SurveillanceReplyAltitudeMessage"}, icao_address : Addrs,
     baro_pressure_altitude : Altitudes]
SurveillanceReplyIdentityCodeMessages ==
    [cls : {"SurveillanceReplyIdentityCodeMessage"}, icao_address : Addrs,
     identity_code : Squawks]
ADSBIdentificationMessages ==
    [cls : {"ADSBIdentificationMessage"}, icao_address : Addrs,
     callsign : Callsigns]
ADSBAirbornePositionMessages ==
    [cls : {"ADSBAirbornePositionMessage"}, icao_address : Addrs,
     altitude : Altitudes, altitude_type : AltitudeTypes,
     position : Positions \cup {None}]
ADSBAirborneVelocityMessages ==
    [cls : {"ADSBAirborneVelocityMessage"}, icao_address : Addrs,
     ground_speed : Speeds, track : Tracks, vertical_speed : VerticalSpeeds]
\* CommBReply.from_hex sets identity_code or else altitude, and maybe callsign
CommBReplies ==
    {m \in [cls : {"CommBReply"}, icao_address : Addrs,
            altitude : Altitudes \cup {None},
            identity_code : Squawks \cup {None},
            callsign : Callsigns \cup {None}] :
        (m.altitude = None) # (m.identity_code = None)}

ModeSMessages ==
    SurveillanceReplyAltitudeMessages \cup SurveillanceReplyIdentityCodeMessages
    \cup ADSBIdentificationMessages \cup ADSBAirbornePositionMessages
    \cup ADSBAirborneVelocityMessages \cup CommBReplies

\* model/flight.py: Flight; cid stands for the non-expiring flight metadata
Flights ==
    [cls : {"Flight"}, icao_address : Addrs \cup {None},
     callsign : Callsigns \cup {None}, cid : {1}]

-----------------------------------------------------------------------------
(* correlator.py: Aircraft *)

AIRCRAFT_EXPIRY_SECS == 10      \* Correlator.aircraft = LeakyDictionary(10)
FIELD_EXPIRY_SECS == 10         \* Aircraft.__init__(expiry_secs = 10)
CALLSIGN_EXPIRY_SECS == 60 * 5
SQUAWK_EXPIRY_SECS == 60 * 5

ExpiringFields ==
    {"callsign", "squawk", "altitude", "position", "ground_speed", "track",
     "vertical_speed"}

Aircraft(icao_address) ==
    [icao_address |-> icao_address,
     callsign |-> ExpiringValue(CALLSIGN_EXPIRY_SECS),
     squawk |-> ExpiringValue(SQUAWK_EXPIRY_SECS),
     altitude |-> ExpiringValue(FIELD_EXPIRY_SECS),
     position |-> ExpiringValue(FIELD_EXPIRY_SECS),
     ground_speed |-> ExpiringValue(FIELD_EXPIRY_SECS),
     track |-> ExpiringValue(FIELD_EXPIRY_SECS),
     vertical_speed |-> ExpiringValue(FIELD_EXPIRY_SECS),
     flight_plan |-> NoFlight]

\* the property setters: aircraft.<field> = value
Aircraft_set(ac, field, value, t) ==
    [ac EXCEPT ![field] = ExpiringValue_set(ac[field], value, t)]

\* the property getters: aircraft.<field>
Aircraft_get(ac, field, t) == ExpiringValue_get(ac[field], t)

-----------------------------------------------------------------------------
(* model/lifetimes.py: properties whose values expire.  The class under     *)
(* test has two expiring fields with sentinel None, as VehicleState in      *)
(* tests/test_lifetimes.py; each instance carries its own expirations dict  *)
(* and its own value attributes.                                            *)

Instances == 1..MaxInst

\* cls.__lifetimes_fields__: field name -> _Field.expires, in seconds (a
\* short-lived and a longer-lived field, as the test's 1 s and 3 s, at the
\* scale of the clock's steps)
FIELDS == [position |-> 5, speed |-> 10]

\* the instance has no __lifetimes_expirations__ attribute yet
NoAttribute == {}

\* datetime.min: a naive datetime, where _now() is an aware one
DatetimeMin == [tzinfo |-> "None", at |-> 0]
DatetimeUTC(t) == [tzinfo |-> "utc", at |-> t]

\* what a getter call does: returns a value, or raises
GetterReturns(value) == [value |-> value, raised |-> ""]
GetterRaises(exc) == [value |-> None, raised |-> exc]

\* _expirations(obj): the instance's dict, created with every field at
\* datetime.min when the instance has none
Lifetimes_expirations(exps) ==
    IF exps = NoAttribute THEN [name \in DOMAIN FIELDS |-> DatetimeMin]
    ELSE CHOOSE value \in exps : TRUE

\* getter(obj): `_now() > _expirations(obj)[name]` compares an aware datetime
\* with the stored one; Python raises TypeError when that one is naive
Lifetimes_getter(exps, values, name, t) ==
    LET expiration == Lifetimes_expirations(exps)[name] IN
    IF expiration.tzinfo = "None" THEN GetterRaises("TypeError")
    ELSE IF t > expiration.at THEN GetterReturns(None)
    ELSE GetterReturns(values[name])

\* a setter that keeps one expiry per object: it refreshes every field
Lifetimes_setter_refreshes_all(exps, name, t) ==
    [n \in DOMAIN FIELDS |-> DatetimeUTC(t + FIELDS[n])]

\* setter(obj, value): the expirations dict after it
Lifetimes_setter(exps, name, t) ==
    [Lifetimes_expirations(exps) EXCEPT ![name] = DatetimeUTC(t + FIELDS[name])]

-----------------------------------------------------------------------------
(* Initial state: the objects as their constructors leave them.             *)
(* Correlator.__init__ sets self.flights; it never sets self.flight_plans,  *)
(* the attribute step() reads and writes.                                   *)

EmptyDict == [k \in {} |-> None]

Init ==
    /\ running = [t \in Tasks |-> FALSE]
    /\ pc = [t \in Tasks |-> "not_started"]
    /\ raised = [t \in Tasks |-> ""]
    /\ stop_called = [t \in Tasks |-> FALSE]
    /\ reader = None
    /\ writer = None
    /\ opened = 0
    /\ closed = {}
    /\ errors_seen = {}
    /\ decoding_logged = [error \in ErrTexts |-> 0]
    /\ decoding_suppressed = {}
    /\ dropped = FALSE
    /\ fails = 0
    /\ eofs = 0
    /\ transitions = 0
    /\ in_queue = <<>>
    /\ is_shutdown = FALSE
    /\ aircraft = EmptyDict
    /\ flight_plans = Missing
    /\ flights = EmptyDict
    /\ taken = <<>>
    /\ update_calls = 0
    /\ snapshot = {}
    /\ now = 0
    /\ objects = <<>>
    /\ table = EmptyDict
    /\ delivered = {}
    /\ prior_positions = EmptyDict
    /\ prior_cpr_msgs = <<EmptyDict, EmptyDict>>
    /\ located = <<>>
    /\ lifetimes_expirations = [obj \in Instances |-> NoAttribute]
    /\ lifetimes_value = [obj \in Instances |-> [name \in DOMAIN FIELDS |-> None]]
    /\ lifetimes_set_at = [obj \in Instances |-> [name \in DOMAIN FIELDS |-> None]]
    /\ lifetimes_got = <<>>
    /\ leaky = EmptyDict
    /\ leaky_inserted = [key \in LeakyKeys |-> <<>>]
    /\ leaky_got = <<>>
    /\ address_from_int = <<>>
    /\ address_from_str = <<>>
    /\ commb_decoded = <<>>

-----------------------------------------------------------------------------
(* runnable.py: Runnable *)

\* stop(): only clears the flag.  It wakes no suspended await and does not
\* touch the queue.
stop(t) ==
    /\ running' = [running EXCEPT ![t] = FALSE]
    /\ stop_called' = [stop_called EXCEPT ![t] = TRUE]
    /\ UNCHANGED <<pc, raised, in_queue, is_shutdown, now>>
    /\ UNCHANGED ingesterVars
    /\ UNCHANGED correlatorVars
    /\ UNCHANGED libraryVars

\* run(), `while self._running:` -- where the task goes when setup() or
\* step() has returned: into the next step(), or through teardown() out of
\* run()
Runnable_loop(is_running, step_await) ==
    IF is_running THEN step_await ELSE "stopped"

\* run(), `except asyncio.queues.QueueShutDown: if self._running: raise;
\* break` -- where the task goes when step() raised QueueShutDown: out of
\* run() with the exception, or through teardown() out of run()
Runnable_run_except(is_running) ==
    IF is_running THEN "failed" ELSE "stopped"

\* a queue whose put_nowait accepts items after the shutdown
Queue_put_nowait_never_raises(is_shut) ==
    FALSE

\* the queue both loops share is an asyncio.Queue: once shut down, put_nowait
\* raises QueueShutDown, and get() raises it when the queue is empty
Queue_put_nowait_QueueShutDown(is_shut) ==
    is_shut

Queue_get_QueueShutDown(queue, is_shut) ==
    is_shut /\ queue = <<>>

\* in_queue.shutdown(immediate): nothing in the package calls it; it is the
\* closure Runnable.run and the two put_nowait callers provide for
Queue_shutdown(immediate) ==
    /\ ~is_shutdown
    /\ is_shutdown' = TRUE
    /\ in_queue' = IF immediate THEN <<>> ELSE in_queue
    /\ UNCHANGED <<running, pc, raised, stop_called, now>>
    /\ UNCHANGED ingesterVars
    /\ UNCHANGED correlatorVars
    /\ UNCHANGED libraryVars

-----------------------------------------------------------------------------
(* mode_s/ingester.py: ModeSIngester *)

\* a teardown() that drops the handles without closing the writer
ModeSIngester_teardown_closes_nothing(wr) ==
    closed

\* teardown(): the handles after it, and the writers closed
ModeSIngester_teardown_closed(wr) ==
    IF wr # None THEN closed \cup {wr} ELSE closed

\* a connect loop that does not look at the flag
ModeSIngester_setup_ignores_stop(is_running) ==
    "connecting"

\* setup(), `while self.is_running():` at the head of the connect loop:
\* another open_connection, or fall out of setup() back into run()'s loop
ModeSIngester_setup(is_running) ==
    IF is_running THEN "connecting" ELSE Runnable_loop(is_running, "reading")

\* a setup() whose except clauses miss OSError
ModeSIngester_setup_except_only_refused(exc) ==
    IF exc = "ConnectionRefusedError" THEN "backoff" ELSE "failed"

\* setup(), the except clauses: ConnectionRefusedError and OSError are
\* logged and control falls through to `await asyncio.sleep(1)`
ModeSIngester_setup_except(exc) ==
    IF exc \in {"ConnectionRefusedError", "OSError"} THEN "backoff" ELSE "failed"

\* a step() that returns on an empty read without awaiting setup()
ModeSIngester_step_eof_no_setup(is_running) ==
    Runnable_loop(is_running, "reading")

\* step(), `if not line:` -- the remote closed: step() awaits setup() again
ModeSIngester_step_eof(is_running) ==
    ModeSIngester_setup(is_running)

\* the ingester moves to `next` holding the handles rd and wr; leaving run()
\* through teardown() closes wr and clears both handles
ModeSIngester_goto(next, rd, wr) ==
    /\ pc' = [pc EXCEPT !.ModeSIngester = next]
    /\ IF next = "stopped"
       THEN /\ closed' = ModeSIngester_teardown_closed(wr)
            /\ reader' = None
            /\ writer' = None
       ELSE /\ closed' = closed
            /\ reader' = rd
            /\ writer' = wr

\* run() up to the first suspension: sets the flag and enters setup()
ModeSIngester_run ==
    /\ pc.ModeSIngester = "not_started"
    /\ running' = [running EXCEPT !.ModeSIngester = TRUE]
    /\ ModeSIngester_goto(ModeSIngester_setup(TRUE), reader, writer)
    /\ UNCHANGED <<raised, stop_called, opened, errors_seen, decoding_logged,
                   decoding_suppressed, dropped, fails, eofs,
                   transitions, in_queue, is_shutdown, now>>
    /\ UNCHANGED correlatorVars
    /\ UNCHANGED libraryVars

\* open_connection returns a (reader, writer) pair: setup() returns
ModeSIngester_setup_connected ==
    /\ pc.ModeSIngester = "connecting"
    /\ opened' = opened + 1
    /\ LET next == Runnable_loop(running.ModeSIngester, "reading") IN
       /\ ModeSIngester_goto(next, opened + 1, opened + 1)
       /\ transitions' = IF next = "reading" THEN transitions + 1 ELSE transitions
    /\ UNCHANGED <<running, raised, stop_called, errors_seen, decoding_logged,
                   decoding_suppressed, dropped, fails, eofs,
                   in_queue, is_shutdown, now>>
    /\ UNCHANGED correlatorVars
    /\ UNCHANGED libraryVars

\* open_connection raises ConnectionRefusedError or another OSError
ModeSIngester_setup_refused(exc) ==
    /\ pc.ModeSIngester = "connecting"
    /\ fails < MaxFails
    /\ fails' = fails + 1
    /\ LET next == ModeSIngester_setup_except(exc) IN
       /\ ModeSIngester_goto(next, reader, writer)
       /\ raised' = IF next = "failed"
                    THEN [raised EXCEPT !.ModeSIngester = exc] ELSE raised
    /\ UNCHANGED <<running, stop_called, opened, errors_seen, decoding_logged,
                   decoding_suppressed, dropped, eofs,
                   transitions, in_queue, is_shutdown, now>>
    /\ UNCHANGED correlatorVars
    /\ UNCHANGED libraryVars

\* asyncio.sleep(1) is over: back to the head of setup()'s loop
ModeSIngester_setup_backoff ==
    /\ pc.ModeSIngester = "backoff"
    /\ ModeSIngester_goto(ModeSIngester_setup(running.ModeSIngester), reader, writer)
    /\ UNCHANGED <<running, raised, stop_called, opened, errors_seen, decoding_logged,
                   decoding_suppressed, dropped, fails,
                   eofs, transitions, in_queue, is_shutdown, now>>
    /\ UNCHANGED correlatorVars
    /\ UNCHANGED libraryVars

\* what readline() can return:
\*   eof          b"" (the remote closed)
\*   noframe      two bytes or more, not b"*" first or not b";" last but one
\*   star         the single byte b"*" (the remote closed after sending it)
\*   nonascii     framed, with a byte over 0x7F in the payload
\*   undecodable  framed, _decode raises DecodingError(error)
\*   nothex       framed, pyModeS.df raises ValueError on the payload (its
\*                int(..., 16) on a payload that is not hex digits)
\*   badaltitude  framed, downlink format 4, pyModeS raises RuntimeError in
\*                SurveillanceReplyAltitudeMessage.from_hex, which has no
\*                except clause (a payload too short for the altitude bits)
\*   message      framed, _decode returns `decoded`
Lines ==
    [kind : {"eof", "noframe", "star", "nonascii", "nothex", "badaltitude"}]
    \cup [kind : {"undecodable"}, error : ErrTexts]
    \cup [kind : {"message"}, decoded : ModeSMessages]

\* the lines that decode
MessageLines == [kind : {"message"}, decoded : ModeSMessages]

\* step(): the exception that leaves it ("" if none).  `line[-2]` raises
\* IndexError on a one-byte line that passed `line[0] == 0x2A`; the except
\* clauses around _decode are UnicodeDecodeError and DecodingError only.
ModeSIngester_step_raises(line) ==
    CASE line.kind = "star" -> "IndexError"
      [] line.kind = "nothex" -> "ValueError"
      [] line.kind = "badaltitude" -> "RuntimeError"
      [] OTHER -> ""

\* a step() that logs every DecodingError
ModeSIngester_step_logs_always(seen, error) ==
    TRUE

\* step(), `if error not in self._errors_seen:` -- is the DecodingError
\* logged?
ModeSIngester_step_logs(seen, error) ==
    error \notin seen

\* step(): one readline() and everything done with the line
ModeSIngester_step(line) ==
    /\ pc.ModeSIngester = "reading"
    /\ line.kind = "eof" => eofs < MaxEOFs
    /\ (line.kind = "message" /\ ~Queue_put_nowait_QueueShutDown(is_shutdown)) =>
            /\ Len(in_queue) < MaxQueue
            /\ Len(taken) + Len(in_queue) < MaxItems
    /\ eofs' = IF line.kind = "eof" THEN eofs + 1 ELSE eofs
    /\ IF line.kind = "undecodable"
       THEN IF ModeSIngester_step_logs(errors_seen, line.error)
            THEN /\ decoding_logged' =
                        [decoding_logged EXCEPT ![line.error] = @ + 1]
                 /\ errors_seen' = errors_seen \cup {line.error}
                 /\ UNCHANGED decoding_suppressed
            ELSE /\ decoding_suppressed' = decoding_suppressed \cup {line.error}
                 /\ UNCHANGED <<errors_seen, decoding_logged>>
       ELSE UNCHANGED <<errors_seen, decoding_logged, decoding_suppressed>>
    \* put_nowait; `except asyncio.QueueShutDown: pass`
    /\ in_queue' = IF line.kind = "message"
                      /\ ~Queue_put_nowait_QueueShutDown(is_shutdown)
                   THEN Append(in_queue, line.decoded) ELSE in_queue
    /\ dropped' = IF line.kind = "message"
                     /\ Queue_put_nowait_QueueShutDown(is_shutdown)
                  THEN TRUE ELSE dropped
    /\ ModeSIngester_goto(
            IF line.kind = "eof"
            THEN ModeSIngester_step_eof(running.ModeSIngester)
            ELSE IF ModeSIngester_step_raises(line) # ""
            THEN "failed"   \* the exception leaves run(); teardown() is skipped
            ELSE Runnable_loop(running.ModeSIngester, "reading"),
            reader, writer)
    /\ raised' = IF ModeSIngester_step_raises(line) # ""
                 THEN [raised EXCEPT !.ModeSIngester = ModeSIngester_step_raises(line)]
                 ELSE raised
    /\ UNCHANGED <<running, stop_called, opened, fails, transitions,
                   is_shutdown, now>>
    /\ UNCHANGED correlatorVars
    /\ UNCHANGED libraryVars

-----------------------------------------------------------------------------
(* swim_ingester.py: SWIMIngester._on_message puts a Flight on the queue *)

SWIMIngester_on_message(flight) ==
    /\ ~Queue_put_nowait_QueueShutDown(is_shutdown) =>
            /\ Len(in_queue) < MaxQueue
            /\ Len(taken) + Len(in_queue) < MaxItems
    /\ in_queue' = IF Queue_put_nowait_QueueShutDown(is_shutdown) THEN in_queue
                   ELSE Append(in_queue, flight)
    /\ UNCHANGED <<running, pc, raised, stop_called, is_shutdown, now>>
    /\ UNCHANGED ingesterVars
    /\ UNCHANGED correlatorVars
    /\ UNCHANGED libraryVars

-----------------------------------------------------------------------------
(* correlator.py: Correlator *)

\* step(), the `match message:` statement applied to the Aircraft object
Correlator_match(ac, message, t) ==
    CASE message.cls = "SurveillanceReplyAltitudeMessage" ->
            Aircraft_set(ac, "altitude", message.baro_pressure_altitude, t)
      [] message.cls = "SurveillanceReplyIdentityCodeMessage" ->
            Aircraft_set(ac, "squawk", message.identity_code, t)
      [] message.cls = "ADSBIdentificationMessage" ->
            Aircraft_set(ac, "callsign", message.callsign, t)
      [] message.cls = "ADSBAirbornePositionMessage" ->
            LET a1 == IF message.altitude_type = "BARO_PRESSURE"
                      THEN Aircraft_set(ac, "altitude", message.altitude, t)
                      ELSE ac
            IN  Aircraft_set(a1, "position", message.position, t)
      [] message.cls = "ADSBAirborneVelocityMessage" ->
            LET a1 == Aircraft_set(ac, "ground_speed", message.ground_speed, t)
                a2 == Aircraft_set(a1, "track", message.track, t)
            IN  Aircraft_set(a2, "vertical_speed", message.vertical_speed, t)
      [] message.cls = "CommBReply" ->
            LET a1 == IF message.altitude # None
                      THEN Aircraft_set(ac, "altitude", message.altitude, t)
                      ELSE ac
                a2 == IF message.identity_code # None
                      THEN Aircraft_set(a1, "squawk", message.identity_code, t)
                      ELSE a1
            IN  IF message.callsign # None
                THEN Aircraft_set(a2, "callsign", message.callsign, t)
                ELSE a2
      [] message.cls = "Flight" ->
            [ac EXCEPT !.flight_plan = message]
      [] OTHER -> ac

\* step(), the except KeyError branch: a new Aircraft seeded from the
\* flight-plan table fp (a dict here: the read of self.flight_plans worked)
Correlator_create(fp, icao_address, t) ==
    LET flight_plan == IF icao_address \in DOMAIN fp THEN fp[icao_address]
                       ELSE NoFlight
        ac == [Aircraft(icao_address) EXCEPT !.flight_plan = flight_plan]
    IN  IF flight_plan # NoFlight
        THEN Aircraft_set(ac, "callsign", flight_plan.callsign, t)
        ELSE ac

\* a step() without the early return for an item that has no address
Correlator_step_discards_never(message) ==
    FALSE

\* step(): `if message.icao_address is None: return` -- TRUE when the item
\* is dropped before the table is touched and before update_cb
Correlator_step_discards(message) ==
    message.icao_address = None

\* step(): does the read or write of self.flight_plans raise AttributeError?
Correlator_step_AttributeError(fp, KeyError, message) ==
    fp = Missing /\ (KeyError \/ message.cls = "Flight")

\* run() up to the first suspension: setup() is the inherited no-op
Correlator_run ==
    /\ pc.Correlator = "not_started"
    /\ running' = [running EXCEPT !.Correlator = TRUE]
    /\ pc' = [pc EXCEPT !.Correlator = Runnable_loop(TRUE, "getting")]
    /\ UNCHANGED <<raised, stop_called, in_queue, is_shutdown, now>>
    /\ UNCHANGED ingesterVars
    /\ UNCHANGED correlatorVars
    /\ UNCHANGED libraryVars

\* step(): in_queue.get() returns the head of the queue, and everything
\* step() does with it, up to the return of update_cb
Correlator_step ==
    /\ pc.Correlator = "getting"
    /\ in_queue # <<>>
    /\ LET message == Head(in_queue)
           key == message.icao_address
           KeyError == LeakyDictionary_getitem_KeyError(aircraft, key, AIRCRAFT_EXPIRY_SECS, now)
           u1 == LeakyDictionary_getitem_underlying(aircraft, key, AIRCRAFT_EXPIRY_SECS, now)
           ac0 == IF KeyError THEN Correlator_create(flight_plans, key, now)
                  ELSE u1[key].value
           ac1 == Correlator_match(ac0, message, now)
           \* the table holds a reference to an Aircraft it already has:
           \* the match statement changes that object in place
           u2 == IF KeyError THEN u1 ELSE [u1 EXCEPT ![key].value = ac1]
           u3 == LeakyDictionary_setitem(u2, key, ac1, now)
       IN
       /\ in_queue' = Tail(in_queue)
       /\ taken' = Append(taken, message)
       /\ IF Correlator_step_discards(message)
          THEN /\ pc' = [pc EXCEPT !.Correlator = Runnable_loop(running.Correlator, "getting")]
               /\ UNCHANGED <<raised, aircraft, flight_plans, update_calls, snapshot>>
          ELSE IF Correlator_step_AttributeError(flight_plans, KeyError, message)
          THEN \* the exception leaves step() and run(); teardown() is skipped
               /\ pc' = [pc EXCEPT !.Correlator = "failed"]
               /\ raised' = [raised EXCEPT !.Correlator = "AttributeError"]
               /\ aircraft' = IF KeyError THEN u1 ELSE u2
               /\ UNCHANGED <<flight_plans, update_calls, snapshot>>
          ELSE /\ flight_plans' = IF message.cls = "Flight"
                                  THEN [k \in DOMAIN flight_plans \cup {key} |->
                                          IF k = key THEN message ELSE flight_plans[k]]
                                  ELSE flight_plans
               /\ aircraft' = LeakyDictionary_values_underlying(u3, AIRCRAFT_EXPIRY_SECS, now)
               /\ snapshot' = LeakyDictionary_values(u3, AIRCRAFT_EXPIRY_SECS, now)
               /\ update_calls' = update_calls + 1
               /\ pc' = [pc EXCEPT !.Correlator = Runnable_loop(running.Correlator, "getting")]
               /\ UNCHANGED raised
    /\ UNCHANGED <<running, stop_called, flights, is_shutdown, now>>
    /\ UNCHANGED ingesterVars
    /\ UNCHANGED libraryVars

\* step(): in_queue.get() raises QueueShutDown (the queue is shut down and
\* empty); run()'s except clause decides what becomes of it
Correlator_step_QueueShutDown ==
    /\ pc.Correlator = "getting"
    /\ Queue_get_QueueShutDown(in_queue, is_shutdown)
    /\ LET next == Runnable_run_except(running.Correlator) IN
       /\ pc' = [pc EXCEPT !.Correlator = next]
       /\ raised' = IF next = "failed"
                    THEN [raised EXCEPT !.Correlator = "QueueShutDown"]
                    ELSE raised
    /\ UNCHANGED <<running, stop_called, in_queue, is_shutdown, now>>
    /\ UNCHANGED ingesterVars
    /\ UNCHANGED correlatorVars
    /\ UNCHANGED libraryVars

-----------------------------------------------------------------------------
(* time.time() advances *)

Tick ==
    /\ \E d \in TickSteps :
        /\ now + d <= MaxTime
        /\ now' = now + d
    /\ UNCHANGED <<running, pc, raised, stop_called, in_queue, is_shutdown>>
    /\ UNCHANGED ingesterVars
    /\ UNCHANGED correlatorVars
    /\ UNCHANGED libraryVars

-----------------------------------------------------------------------------
(* The live table and its records on their own: a LeakyDictionary of        *)
(* Aircraft objects used the way Correlator.step uses it.  Python stores    *)
(* and returns references: `objects` is the heap, the table and the list    *)
(* values() returns hold indices into it.                                   *)

\* self.aircraft[key] = Aircraft(key), for a key the table does not hold
Table_insert(key) ==
    /\ Len(objects) < MaxObjects
    /\ LeakyDictionary_getitem_KeyError(table, key, AIRCRAFT_EXPIRY_SECS, now)
    /\ objects' = Append(objects, Aircraft(key))
    /\ table' = LeakyDictionary_setitem(
                    LeakyDictionary_getitem_underlying(table, key, AIRCRAFT_EXPIRY_SECS, now),
                    key, Len(objects) + 1, now)
    /\ UNCHANGED <<delivered, running, pc, raised, stop_called, in_queue, is_shutdown, now>>
    /\ UNCHANGED ingesterVars
    /\ UNCHANGED messageVars
    /\ UNCHANGED correlatorVars
    /\ UNCHANGED addressVars
    /\ UNCHANGED decoderVars
    /\ UNCHANGED lifetimesVars
    /\ UNCHANGED leakyVars

\* aircraft = self.aircraft[key]; the `match message:` statement;
\* self.aircraft[key] = aircraft -- the setters write the object the table
\* refers to
Table_update(message) ==
    /\ ~LeakyDictionary_getitem_KeyError(table, message.icao_address,
                                         AIRCRAFT_EXPIRY_SECS, now)
    /\ LET ref == table[message.icao_address].value IN
       /\ objects' = [objects EXCEPT ![ref] = Correlator_match(@, message, now)]
       /\ table' = LeakyDictionary_setitem(table, message.icao_address, ref, now)
    /\ UNCHANGED <<delivered, running, pc, raised, stop_called, in_queue, is_shutdown, now>>
    /\ UNCHANGED ingesterVars
    /\ UNCHANGED messageVars
    /\ UNCHANGED correlatorVars
    /\ UNCHANGED addressVars
    /\ UNCHANGED decoderVars
    /\ UNCHANGED lifetimesVars
    /\ UNCHANGED leakyVars

\* update_cb(self.aircraft.values()): the subscriber is handed a new list of
\* the references the table holds
Table_publish ==
    /\ delivered' = LeakyDictionary_values(table, AIRCRAFT_EXPIRY_SECS, now)
    /\ table' = LeakyDictionary_values_underlying(table, AIRCRAFT_EXPIRY_SECS, now)
    /\ UNCHANGED <<objects, running, pc, raised, stop_called, in_queue, is_shutdown, now>>
    /\ UNCHANGED ingesterVars
    /\ UNCHANGED messageVars
    /\ UNCHANGED correlatorVars
    /\ UNCHANGED addressVars
    /\ UNCHANGED decoderVars
    /\ UNCHANGED lifetimesVars
    /\ UNCHANGED leakyVars

\* api.py, Server.step: the presentation layer reads the correlator's table
\* itself, `self._correlator.aircraft.values()`, and values() sweeps the
\* expired entries out of _underlying; the list it returns is serialised and
\* sent, and is kept nowhere
Server_step ==
    /\ table' = LeakyDictionary_values_underlying(table, AIRCRAFT_EXPIRY_SECS, now)
    /\ UNCHANGED <<objects, delivered, running, pc, raised, stop_called, in_queue,
                   is_shutdown, now>>
    /\ UNCHANGED ingesterVars
    /\ UNCHANGED messageVars
    /\ UNCHANGED correlatorVars
    /\ UNCHANGED addressVars
    /\ UNCHANGED decoderVars
    /\ UNCHANGED lifetimesVars
    /\ UNCHANGED leakyVars

\* the messages applied to the records of the table
TableMessages ==
    SurveillanceReplyAltitudeMessages \cup SurveillanceReplyIdentityCodeMessages
    \cup ADSBAirbornePositionMessages

NextTable ==
    \/ \E key \in Addrs : Table_insert(key)
    \/ \E message \in TableMessages : Table_update(message)
    \/ Table_publish
    \/ Server_step
    \/ Tick

SpecTable == Init /\ [][NextTable]_vars

-----------------------------------------------------------------------------
(* decoder.py: Decoder._position and _position_from_cpr_pair, the position  *)
(* disambiguator (mode_s/position_state.py holds the same two methods as    *)
(* PositionState.locate).                                                   *)

PRIOR_POSITION_EXPIRY_SECS == 648
PRIOR_CPR_EXPIRY_SECS == 10

\* An airborne position message as far as the disambiguator and pyModeS look
\* at it: oe is the CPR odd/even flag (pyModeS.adsb.oe_flag), nl the
\* latitude zone count of the encoded latitude, tc the type code family
\* (9-18 barometric, 20-22 GNSS)
CPRMessages == [oe : {0, 1}, nl : 1..MaxZone, tc : {"baro", "gnss"}]

\* what a call returns: a position or None, or the exception it raises
Returned(position) == [position |-> position, raised |-> ""]
Raised(exc) == [position |-> None, raised |-> exc]

\* pyModeS.adsb.position(msg0, msg1, ...) as the caller handles it: a
\* RuntimeError for a pair of inconsistent type codes (re-raised as
\* DecodingError), None for a pair whose frames lie in different latitude
\* zones, else the position the pair encodes
pyModeS_adsb_position(msg0, msg1) ==
    IF msg0.tc # msg1.tc THEN Raised("DecodingError")
    ELSE IF msg0.nl # msg1.nl THEN Returned(None)
    ELSE Returned(msg0.nl)

\* pyModeS.adsb.position_with_ref(msg, lat_ref, lon_ref)
pyModeS_adsb_position_with_ref(msg, ref_pos) ==
    Returned(msg.nl)

\* a _position_from_cpr_pair that looks for the prior message under the
\* message's own parity
Decoder_prior_parity_same(odd_even_flag) ==
    odd_even_flag

\* _position_from_cpr_pair: `self._prior_cpr_msgs[odd_even_flag ^ 1]`
Decoder_prior_parity(odd_even_flag) ==
    1 - odd_even_flag

\* _position_from_cpr_pair: the result ...
Decoder_position_from_cpr_pair(cpr, icao_address, msg, t) ==
    LET other == cpr[Decoder_prior_parity(msg.oe) + 1] IN
    IF LeakyDictionary_getitem_KeyError(other, icao_address, PRIOR_CPR_EXPIRY_SECS, t)
    THEN Returned(None)
    ELSE LET prior_msg == other[icao_address].value.msg IN
         IF msg.oe = 0 THEN pyModeS_adsb_position(msg, prior_msg)
         ELSE pyModeS_adsb_position(prior_msg, msg)

\* a _position_from_cpr_pair that does not keep the message it cannot pair
Decoder_position_from_cpr_pair_msgs_keeps_nothing(cpr, icao_address, msg, t) ==
    LET o == Decoder_prior_parity(msg.oe) + 1 IN
    [cpr EXCEPT ![o] = LeakyDictionary_getitem_underlying(
                           cpr[o], icao_address, PRIOR_CPR_EXPIRY_SECS, t)]

\* ... and the two dictionaries after it: the lookup drops an expired entry,
\* and the message is stored only when the lookup raised KeyError
Decoder_position_from_cpr_pair_msgs(cpr, icao_address, msg, t) ==
    LET o == Decoder_prior_parity(msg.oe) + 1
        KeyError == LeakyDictionary_getitem_KeyError(cpr[o], icao_address, PRIOR_CPR_EXPIRY_SECS, t)
        c1 == [cpr EXCEPT ![o] = LeakyDictionary_getitem_underlying(
                                    cpr[o], icao_address, PRIOR_CPR_EXPIRY_SECS, t)]
    IN  IF KeyError
        THEN [c1 EXCEPT ![msg.oe + 1] = LeakyDictionary_setitem(
                    c1[msg.oe + 1], icao_address, [timestamp |-> t, msg |-> msg], t)]
        ELSE c1

\* which lookups of a call find an entry of the address that has expired
\* (`del self._underlying[key]` in __getitem__): that of the reference, and,
\* when there is no reference to use, that of the complementary message
Decoder_position_expired(positions, cpr, icao_address, msg, t) ==
    LET other == cpr[Decoder_prior_parity(msg.oe) + 1]
        KeyError == LeakyDictionary_getitem_KeyError(
                        positions, icao_address, PRIOR_POSITION_EXPIRY_SECS, t)
    IN  (IF icao_address \in DOMAIN positions /\ KeyError
         THEN {"reference"} ELSE {})
        \cup
        (IF KeyError /\ icao_address \in DOMAIN other
               /\ LeakyDictionary_getitem_KeyError(
                      other, icao_address, PRIOR_CPR_EXPIRY_SECS, t)
         THEN {"pending"} ELSE {})

\* _position(icao_address, msg_hex)
Decoder_position(icao_address, msg) ==
    /\ LET KeyError == LeakyDictionary_getitem_KeyError(
                           prior_positions, icao_address, PRIOR_POSITION_EXPIRY_SECS, now)
           p1 == LeakyDictionary_getitem_underlying(
                           prior_positions, icao_address, PRIOR_POSITION_EXPIRY_SECS, now)
           result == IF KeyError
                     THEN Decoder_position_from_cpr_pair(prior_cpr_msgs, icao_address, msg, now)
                     ELSE pyModeS_adsb_position_with_ref(msg, p1[icao_address].value)
       IN
       /\ prior_cpr_msgs' = IF KeyError
                            THEN Decoder_position_from_cpr_pair_msgs(
                                     prior_cpr_msgs, icao_address, msg, now)
                            ELSE prior_cpr_msgs
       /\ prior_positions' = IF result.position # None
                             THEN LeakyDictionary_setitem(p1, icao_address, result.position, now)
                             ELSE p1
       /\ located' = <<[icao_address |-> icao_address, msg |-> msg,
                         had_ref |-> ~KeyError, result |-> result,
                         expired |-> Decoder_position_expired(
                                         prior_positions, prior_cpr_msgs,
                                         icao_address, msg, now)]>>
    /\ UNCHANGED <<running, pc, raised, stop_called, in_queue, is_shutdown, now>>
    /\ UNCHANGED ingesterVars
    /\ UNCHANGED messageVars
    /\ UNCHANGED correlatorVars
    /\ UNCHANGED addressVars
    /\ UNCHANGED tableVars
    /\ UNCHANGED lifetimesVars
    /\ UNCHANGED leakyVars

NextDecoder ==
    \/ \E icao_address \in Addrs, msg \in CPRMessages : Decoder_position(icao_address, msg)
    \/ Tick

SpecDecoder == Init /\ [][NextDecoder]_vars

\* The disambiguator with messages of more than one aircraft, and over a
\* time long enough for a reference position to expire: a receiver that
\* hears nothing for about 648 seconds.  The messages are those of one type
\* code family.
LocateAddrs == 1..(MaxAddr + 1)
LocateMessages == {msg \in CPRMessages : msg.tc = "baro"}
LongSteps == {PRIOR_POSITION_EXPIRY_SECS, PRIOR_POSITION_EXPIRY_SECS + 1}

Sleep ==
    /\ now <= MaxTime
    /\ \E d \in LongSteps : now' = now + d
    /\ UNCHANGED <<running, pc, raised, stop_called, in_queue, is_shutdown>>
    /\ UNCHANGED ingesterVars
    /\ UNCHANGED correlatorVars
    /\ UNCHANGED libraryVars

NextLocate ==
    \/ \E icao_address \in LocateAddrs, msg \in LocateMessages :
            Decoder_position(icao_address, msg)
    \/ Tick
    \/ Sleep

SpecLocate == Init /\ [][NextLocate]_vars

-----------------------------------------------------------------------------
(* model/lifetimes.py: reading and assigning the expiring properties *)

LifetimeValues == {1}

\* obj.<name> = value
Lifetimes_set(obj, name, value) ==
    /\ lifetimes_expirations' = [lifetimes_expirations EXCEPT
            ![obj] = {Lifetimes_setter(@, name, now)}]
    /\ lifetimes_value' = [lifetimes_value EXCEPT ![obj][name] = value]
    /\ lifetimes_set_at' = [lifetimes_set_at EXCEPT ![obj][name] = now]
    /\ UNCHANGED <<lifetimes_got, running, pc, raised, stop_called, in_queue, is_shutdown, now>>
    /\ UNCHANGED ingesterVars
    /\ UNCHANGED messageVars
    /\ UNCHANGED correlatorVars
    /\ UNCHANGED addressVars
    /\ UNCHANGED tableVars
    /\ UNCHANGED decoderVars
    /\ UNCHANGED leakyVars

\* obj.<name>
Lifetimes_get(obj, name) ==
    /\ lifetimes_got' = <<[obj |-> obj, name |-> name,
                            result |-> Lifetimes_getter(lifetimes_expirations[obj],
                                                        lifetimes_value[obj], name, now)]>>
    /\ lifetimes_expirations' = [lifetimes_expirations EXCEPT
            ![obj] = {Lifetimes_expirations(@)}]
    /\ UNCHANGED <<lifetimes_value, lifetimes_set_at, running, pc, raised,
                   stop_called, in_queue, is_shutdown, now>>
    /\ UNCHANGED ingesterVars
    /\ UNCHANGED messageVars
    /\ UNCHANGED correlatorVars
    /\ UNCHANGED addressVars
    /\ UNCHANGED tableVars
    /\ UNCHANGED decoderVars
    /\ UNCHANGED leakyVars

NextLifetimes ==
    \/ \E obj \in Instances, name \in DOMAIN FIELDS, value \in LifetimeValues :
            Lifetimes_set(obj, name, value)
    \/ \E obj \in Instances, name \in DOMAIN FIELDS : Lifetimes_get(obj, name)
    \/ Tick

SpecLifetimes == Init /\ [][NextLifetimes]_vars

-----------------------------------------------------------------------------
(* util.py: a LeakyDictionary used through its own methods *)

LEAKY_EXPIRY_SECS == 5      \* the expiry_secs given to __init__
LeakyValues == {1, 2}

\* what a lookup does: the value returned by d[key] and d.get(key), the
\* truth value returned by `key in d`, or the exception raised
LookupReturns(op, key, value) ==
    [op |-> op, key |-> key, value |-> value, truth |-> FALSE, raised |-> "",
     values |-> {}]
ContainsReturns(key, truth) ==
    [op |-> "contains", key |-> key, value |-> None, truth |-> truth, raised |-> "",
     values |-> {}]
LookupRaises(op, key, exc) ==
    [op |-> op, key |-> key, value |-> None, truth |-> FALSE, raised |-> exc,
     values |-> {}]
\* what values() returns
ValuesReturns(values) ==
    [op |-> "values", key |-> None, value |-> None, truth |-> FALSE, raised |-> "",
     values |-> values]

\* d[key] = value
Leaky_setitem(key, value) ==
    /\ leaky' = LeakyDictionary_setitem(leaky, key, value, now)
    /\ leaky_inserted' = [leaky_inserted EXCEPT ![key] = <<[at |-> now, value |-> value]>>]
    /\ UNCHANGED <<leaky_got, running, pc, raised, stop_called, in_queue, is_shutdown, now>>
    /\ UNCHANGED ingesterVars
    /\ UNCHANGED messageVars
    /\ UNCHANGED correlatorVars
    /\ UNCHANGED addressVars
    /\ UNCHANGED tableVars
    /\ UNCHANGED decoderVars
    /\ UNCHANGED lifetimesVars

\* d[key]
Leaky_getitem(key) ==
    /\ leaky_got' =
          <<IF LeakyDictionary_getitem_KeyError(leaky, key, LEAKY_EXPIRY_SECS, now)
            THEN LookupRaises("getitem", key, "KeyError")
            ELSE LookupReturns("getitem", key, leaky[key].value)>>
    /\ leaky' = LeakyDictionary_getitem_underlying(leaky, key, LEAKY_EXPIRY_SECS, now)
    /\ UNCHANGED <<leaky_inserted, running, pc, raised, stop_called, in_queue, is_shutdown, now>>
    /\ UNCHANGED ingesterVars
    /\ UNCHANGED messageVars
    /\ UNCHANGED correlatorVars
    /\ UNCHANGED addressVars
    /\ UNCHANGED tableVars
    /\ UNCHANGED decoderVars
    /\ UNCHANGED lifetimesVars

\* d.get(key)
Leaky_get(key) ==
    /\ leaky_got' =
          <<LookupReturns("get", key,
                          LeakyDictionary_get(leaky, key, LEAKY_EXPIRY_SECS, now))>>
    /\ leaky' = LeakyDictionary_getitem_underlying(leaky, key, LEAKY_EXPIRY_SECS, now)
    /\ UNCHANGED <<leaky_inserted, running, pc, raised, stop_called, in_queue, is_shutdown, now>>
    /\ UNCHANGED ingesterVars
    /\ UNCHANGED messageVars
    /\ UNCHANGED correlatorVars
    /\ UNCHANGED addressVars
    /\ UNCHANGED tableVars
    /\ UNCHANGED decoderVars
    /\ UNCHANGED lifetimesVars

\* key in d
Leaky_contains(key) ==
    /\ leaky_got' =
          <<ContainsReturns(key,
                            LeakyDictionary_contains(leaky, key, LEAKY_EXPIRY_SECS, now))>>
    /\ leaky' = LeakyDictionary_getitem_underlying(leaky, key, LEAKY_EXPIRY_SECS, now)
    /\ UNCHANGED <<leaky_inserted, running, pc, raised, stop_called, in_queue, is_shutdown, now>>
    /\ UNCHANGED ingesterVars
    /\ UNCHANGED messageVars
    /\ UNCHANGED correlatorVars
    /\ UNCHANGED addressVars
    /\ UNCHANGED tableVars
    /\ UNCHANGED decoderVars
    /\ UNCHANGED lifetimesVars

\* d.values()
Leaky_values ==
    /\ leaky_got' = <<ValuesReturns(LeakyDictionary_values(leaky, LEAKY_EXPIRY_SECS, now))>>
    /\ leaky' = LeakyDictionary_values_underlying(leaky, LEAKY_EXPIRY_SECS, now)
    /\ UNCHANGED <<leaky_inserted, running, pc, raised, stop_called, in_queue, is_shutdown, now>>
    /\ UNCHANGED ingesterVars
    /\ UNCHANGED messageVars
    /\ UNCHANGED correlatorVars
    /\ UNCHANGED addressVars
    /\ UNCHANGED tableVars
    /\ UNCHANGED decoderVars
    /\ UNCHANGED lifetimesVars

NextLeaky ==
    \/ \E key \in LeakyKeys, value \in LeakyValues : Leaky_setitem(key, value)
    \/ \E key \in LeakyKeys : Leaky_getitem(key)
    \/ \E key \in LeakyKeys : Leaky_get(key)
    \/ \E key \in LeakyKeys : Leaky_contains(key)
    \/ Leaky_values
    \/ Tick

SpecLeaky == Init /\ [][NextLeaky]_vars

-----------------------------------------------------------------------------
(* model/icao_address.py: ICAOAddress.  A str is a sequence of one-character *)
(* strings; an ICAOAddress object is its _value.                             *)

ICAO_MAX == 2^24 - 1
ICAO_MIN == 0

UpperHex == <<"0", "1", "2", "3", "4", "5", "6", "7", "8", "9",
              "A", "B", "C", "D", "E", "F">>
LowerHex == <<"0", "1", "2", "3", "4", "5", "6", "7", "8", "9",
              "a", "b", "c", "d", "e", "f">>

\* the value of one character as a base-16 digit, None if it is not one
HexDigitValue(char) ==
    IF \E d \in 1..16 : UpperHex[d] = char
    THEN (CHOOSE d \in 1..16 : UpperHex[d] = char) - 1
    ELSE IF \E d \in 1..16 : LowerHex[d] = char
    THEN (CHOOSE d \in 1..16 : LowerHex[d] = char) - 1
    ELSE None

\* int(value, 16): the number the digits spell, None where int() raises
\* ValueError (no digits, or a character that is not a hex digit)
RECURSIVE int_16_digits(_, _)
int_16_digits(str, acc) ==
    IF str = <<>> THEN acc
    ELSE IF HexDigitValue(Head(str)) = None THEN None
    ELSE int_16_digits(Tail(str), acc * 16 + HexDigitValue(Head(str)))

int_16(str) ==
    IF str = <<>> THEN None ELSE int_16_digits(str, 0)

\* format(value, "X"): the upper-case hex digits of a natural number
RECURSIVE format_X(_)
format_X(value) ==
    IF value < 16 THEN <<UpperHex[value + 1]>>
    ELSE Append(format_X(value \div 16), UpperHex[(value % 16) + 1])

\* a __str__ that pads to four digits
ICAOAddress_str_04X(value) ==
    LET digits == format_X(value) IN
    [i \in 1..(4 - Len(digits)) |-> "0"] \o digits

\* __str__: f"{self._value:06X}" -- zero-padded on the left to six
\* characters at least
ICAOAddress_str(value) ==
    LET digits == format_X(value) IN
    [i \in 1..(6 - Len(digits)) |-> "0"] \o digits

\* what a constructor call did: the object's _value, or the exception
Constructed(arg, value) == [arg |-> arg, value |-> value, raised |-> ""]
ConstructorRaised(arg, exc) == [arg |-> arg, value |-> None, raised |-> exc]

\* __init__, `if ICAOAddress.MIN <= value <= ICAOAddress.MAX:`
ICAOAddress_init_range(arg, value) ==
    IF ICAO_MIN <= value /\ value <= ICAO_MAX THEN Constructed(arg, value)
    ELSE ConstructorRaised(arg, "ValueError")

\* __init__(value: int)
ICAOAddress_init_int(value) ==
    ICAOAddress_init_range(value, value)

\* __init__(value: str): int(value, 16) first, whose ValueError propagates
ICAOAddress_init_str(str) ==
    IF int_16(str) = None THEN ConstructorRaised(str, "ValueError")
    ELSE ICAOAddress_init_range(str, int_16(str))

\* __eq__ with another ICAOAddress, with an int, with a str
ICAOAddress_eq(value, other_value) == value = other_value
ICAOAddress_eq_int(value, other) == value = other
ICAOAddress_eq_str(value, other) ==
    IF int_16(other) = None THEN FALSE ELSE value = int_16(other)

\* the integers tried: around both ends of the range and inside it
IntInputs ==
    ((ICAO_MIN - 2)..(ICAO_MIN + MaxNear))
    \cup ((ICAO_MAX - MaxNear)..(ICAO_MAX + 2))
    \cup {11259375, 65536, 1048576}

\* the same string with its letters in lower case
Lower(str) == [i \in 1..Len(str) |-> LowerHex[HexDigitValue(str[i]) + 1]]

\* the strings tried: the canonical form of every address, lower-case
\* forms, strings over the range, strings that are not hex
StrInputs ==
    {ICAOAddress_str(v) : v \in {w \in IntInputs : ICAO_MIN <= w /\ w <= ICAO_MAX}}
    \cup {Lower(ICAOAddress_str(v)) : v \in {11259375, ICAO_MAX}}
    \cup {<<"1", "0", "0", "0", "0", "0", "0">>, <<"G">>, <<>>, <<"F", "F">>}

Address_from_int(value) ==
    /\ address_from_int' = <<ICAOAddress_init_int(value)>>
    /\ UNCHANGED <<address_from_str, running, pc, raised, stop_called, in_queue,
                   is_shutdown, now>>
    /\ UNCHANGED ingesterVars
    /\ UNCHANGED messageVars
    /\ UNCHANGED correlatorVars
    /\ UNCHANGED tableVars
    /\ UNCHANGED decoderVars
    /\ UNCHANGED lifetimesVars
    /\ UNCHANGED leakyVars

Address_from_str(str) ==
    /\ address_from_str' = <<ICAOAddress_init_str(str)>>
    /\ UNCHANGED <<address_from_int, running, pc, raised, stop_called, in_queue,
                   is_shutdown, now>>
    /\ UNCHANGED ingesterVars
    /\ UNCHANGED messageVars
    /\ UNCHANGED correlatorVars
    /\ UNCHANGED tableVars
    /\ UNCHANGED decoderVars
    /\ UNCHANGED lifetimesVars
    /\ UNCHANGED leakyVars

NextAddress ==
    \/ \E value \in IntInputs : Address_from_int(value)
    \/ \E str \in StrInputs : Address_from_str(str)

SpecAddress == Init /\ [][NextAddress]_vars

-----------------------------------------------------------------------------
(* mode_s/message.py: CommBReply.from_hex, the decoding of the downlink     *)
(* formats 20 and 21, as a function of what the pyModeS calls return for    *)
(* the message.                                                             *)

MaxRegisters == 2   \* registers pyModeS.bds.infer reports for one message
MaxCallsign == 2    \* characters of the callsign field of a BDS 2,0 register

\* the names pyModeS.bds.infer joins, in their sorted order
BDSNames == <<"BDS10", "BDS17", "BDS20", "BDS30", "BDS40", "BDS50", "BDS60">>

\* pyModeS.bds.infer(msg_hex): None when no register is identified, "EMPTY"
\* for an all-zero field, else the names of the registers identified,
\* sorted and joined by commas; a string is held as the sequence of its
\* comma-separated parts
InferNone == [identified |-> FALSE, names |-> <<>>]
InferResults ==
    {InferNone, [identified |-> TRUE, names |-> <<"EMPTY">>]}
    \cup {[identified |-> TRUE, names |-> [i \in 1..Len(idx) |-> BDSNames[idx[i]]]] :
            idx \in {s \in UNION {[1..n -> DOMAIN BDSNames] : n \in 1..MaxRegisters} :
                        \A i \in 1..(Len(s) - 1) : s[i] < s[i + 1]}}

\* `(pyModeS.bds.infer(msg_hex) or "").split(",")`: None becomes the empty
\* string, and the empty string splits into one empty part
infer_or_empty_split(inferred) ==
    IF inferred.identified THEN inferred.names ELSE <<"">>

\* pyModeS.commb.cs20(msg_hex): the characters of the callsign field, "_"
\* where the field is padded
CallsignChars == {"A", "_"}
RawCallsigns == [1..MaxCallsign -> CallsignChars]

\* str.rstrip("_")
RECURSIVE rstrip(_)
rstrip(str) ==
    IF str # <<>> /\ str[Len(str)] = "_" THEN rstrip(SubSeq(str, 1, Len(str) - 1))
    ELSE str

\* the message as the pyModeS calls see it: pyModeS.idcode raises
\* RuntimeError unless the downlink format is 21; pyModeS.altitude returns
\* None for an altitude field of zeros
CommBInputs ==
    [df : {20, 21}, icao_address : Addrs, altitude : Altitudes \cup {None},
     idcode : Squawks, inferred : InferResults, cs20 : RawCallsigns]

\* what from_hex does: the CommBReply returned (callsign: {} for None, else
\* the set of the one string), or the exception raised
NoReply == [icao_address |-> None, altitude |-> None, identity_code |-> None,
            callsign |-> {}]
FromHexReturns(reply) == [reply |-> reply, raised |-> "", bds |-> ""]
FromHexRaises(exc, bds) == [reply |-> NoReply, raised |-> exc, bds |-> bds]

\* from_hex before the loop: identity_code, or altitude where idcode raises
CommBReply_init(input) ==
    [icao_address |-> input.icao_address,
     altitude |-> IF input.df = 21 THEN None ELSE input.altitude,
     identity_code |-> IF input.df = 21 THEN input.idcode ELSE None,
     callsign |-> {}]

\* `case "BDS10" | "EMPTY": pass`
CommBReply_bds_passes(bds) ==
    bds \in {"BDS10", "EMPTY"}

\* the `for bds in ...` loop with its match statement
RECURSIVE CommBReply_for(_, _, _)
CommBReply_for(result, parts, input) ==
    IF parts = <<>> THEN FromHexReturns(result)
    ELSE LET bds == Head(parts) IN
         IF bds = "BDS20"
         THEN CommBReply_for([result EXCEPT !.callsign = {rstrip(input.cs20)}],
                             Tail(parts), input)
         ELSE IF CommBReply_bds_passes(bds)
         THEN CommBReply_for(result, Tail(parts), input)
         ELSE FromHexRaises("DecodingError", bds)

CommBReply_from_hex(input) ==
    CommBReply_for(CommBReply_init(input), infer_or_empty_split(input.inferred), input)

\* ModeSIngester._decode, `case 20 | 21: return CommBReply.from_hex(msg_hex)`
ModeSIngester_decode_CommBReply(input) ==
    /\ commb_decoded' = <<[input |-> input, result |-> CommBReply_from_hex(input)]>>
    /\ UNCHANGED <<running, pc, raised, stop_called, in_queue, is_shutdown, now>>
    /\ UNCHANGED ingesterVars
    /\ UNCHANGED correlatorVars
    /\ UNCHANGED addressVars
    /\ UNCHANGED tableVars
    /\ UNCHANGED decoderVars
    /\ UNCHANGED lifetimesVars
    /\ UNCHANGED leakyVars

NextCommB ==
    \E input \in CommBInputs : ModeSIngester_decode_CommBReply(input)

SpecCommB == Init /\ [][NextCommB]_vars

-----------------------------------------------------------------------------
(* Specifications *)

Next ==
    \/ \E t \in Tasks : stop(t)
    \/ ModeSIngester_run
    \/ ModeSIngester_setup_connected
    \/ \E exc \in {"ConnectionRefusedError", "OSError"} : ModeSIngester_setup_refused(exc)
    \/ ModeSIngester_setup_backoff
    \/ \E line \in Lines : ModeSIngester_step(line)
    \/ \E flight \in Flights : SWIMIngester_on_message(flight)
    \/ Correlator_run
    \/ Correlator_step
    \/ Tick

Spec == Init /\ [][Next]_vars

\* The event loop runs every task that is ready, every connection attempt
\* ends (it succeeds or it fails) and every sleep ends.  Nothing obliges the
\* remote to send a line or to close, a flight message to arrive, or anybody
\* to call stop().
FairnessIngest ==
    /\ WF_vars(ModeSIngester_run)
    /\ WF_vars(ModeSIngester_setup_connected
               \/ \E exc \in {"ConnectionRefusedError", "OSError"} : ModeSIngester_setup_refused(exc))
    /\ WF_vars(ModeSIngester_setup_backoff)

FairnessCorr ==
    /\ WF_vars(Correlator_run)
    /\ WF_vars(Correlator_step)

FairSpec == Spec /\ FairnessIngest /\ FairnessCorr

\* The ingestion loop alone: the correlator is not started
NextIngest ==
    \/ stop("ModeSIngester")
    \/ ModeSIngester_run
    \/ ModeSIngester_setup_connected
    \/ \E exc \in {"ConnectionRefusedError", "OSError"} : ModeSIngester_setup_refused(exc)
    \/ ModeSIngester_setup_backoff
    \/ \E line \in Lines : ModeSIngester_step(line)

SpecIngest == Init /\ [][NextIngest]_vars

FairIngest == SpecIngest /\ FairnessIngest

\* The correlator alone, fed by the SWIM callback: the ingestion loop is not
\* started
NextCorr ==
    \/ stop("Correlator")
    \/ \E flight \in Flights : SWIMIngester_on_message(flight)
    \/ Correlator_run
    \/ Correlator_step
    \/ Tick

SpecCorr == Init /\ [][NextCorr]_vars

FairCorr == SpecCorr /\ FairnessCorr

\* Both loops with the queue they share, and a holder of the queue that
\* shuts it down
NextShutdown ==
    \/ \E t \in Tasks : stop(t)
    \/ \E immediate \in BOOLEAN : Queue_shutdown(immediate)
    \/ ModeSIngester_run
    \/ ModeSIngester_setup_connected
    \/ \E exc \in {"ConnectionRefusedError", "OSError"} : ModeSIngester_setup_refused(exc)
    \/ ModeSIngester_setup_backoff
    \/ \E line \in Lines : ModeSIngester_step(line)
    \/ Correlator_run
    \/ Correlator_step
    \/ Correlator_step_QueueShutDown

SpecShutdown == Init /\ [][NextShutdown]_vars

\* The ingestion loop submitting to a queue that its holder may shut down;
\* the remote accepts every connection, every line it sends is framed and
\* decodes, or lacks its framing, and nothing takes items off the queue
SubmitLines == MessageLines \cup [kind : {"eof", "noframe"}]

NextSubmit ==
    \/ stop("ModeSIngester")
    \/ \E immediate \in BOOLEAN : Queue_shutdown(immediate)
    \/ ModeSIngester_run
    \/ ModeSIngester_setup_connected
    \/ \E line \in SubmitLines : ModeSIngester_step(line)

SpecSubmit == Init /\ [][NextSubmit]_vars

-----------------------------------------------------------------------------
(* Claims *)

\* C1: after stop() is called on the correlator while its step is blocked in
\* in_queue.get() on an empty queue, the get returns and run() eventually
\* returns (the correlator reaches "stopped") without another item arriving.
C1_StopUnblocksGet ==
    (stop_called.Correlator /\ pc.Correlator = "getting" /\ in_queue = <<>>)
        ~> (pc.Correlator = "stopped")

\* C2: after stop() is called on the ingestion loop while its step is blocked
\* in readline() on a connected, silent remote, the read is interrupted and
\* the loop reaches "stopped" without the remote sending or closing.
C2_StopInterruptsRead ==
    (stop_called.ModeSIngester /\ pc.ModeSIngester = "reading")
        ~> (pc.ModeSIngester = "stopped")

\* C3: once stop() has been called on the ingestion loop, a further stop()
\* changes nothing, no new connection attempt is started, the loop does not
\* enter RUNNING and no step is followed by another step.
C3_StoppedIsTerminal ==
    [][stop_called.ModeSIngester =>
        /\ stop("ModeSIngester") => UNCHANGED vars
        /\ ~(pc.ModeSIngester # "connecting" /\ pc'.ModeSIngester = "connecting")
        /\ ~(pc.ModeSIngester # "reading" /\ pc'.ModeSIngester = "reading")
        /\ (\E line \in Lines : ModeSIngester_step(line)) =>
                pc'.ModeSIngester # "reading"]_vars

\* C4: while stop() has not been called, every failed connection attempt is
\* followed by the backoff and the backoff by another attempt, run() does
\* not end; the attempts end in a CONNECTING -> RUNNING transition once the
\* remote accepts; one refusal followed by one success makes exactly one
\* such transition.
C4_RetriesUntilConnected ==
    /\ [][(\E exc \in {"ConnectionRefusedError", "OSError"} : ModeSIngester_setup_refused(exc))
            => pc'.ModeSIngester = "backoff"]_vars
    /\ [][(pc.ModeSIngester = "backoff" /\ ~stop_called.ModeSIngester
             /\ pc'.ModeSIngester # "backoff")
            => pc'.ModeSIngester = "connecting"]_vars
    /\ (pc.ModeSIngester \in {"connecting", "backoff"})
            ~> (pc.ModeSIngester = "reading" \/ stop_called.ModeSIngester)
    /\ []((fails = 1 /\ opened = 1 /\ ~stop_called.ModeSIngester) => transitions = 1)

\* C4 witness: one attempt was refused, the next succeeded, the loop is
\* RUNNING and nobody called stop()
C4_Witness ==
    /\ fails = 1
    /\ opened = 1
    /\ transitions = 1
    /\ pc.ModeSIngester = "reading"
    /\ ~stop_called.ModeSIngester

\* C5: when readline() returns the empty bytes (the remote closed) and stop()
\* has not been called, the loop goes back to CONNECTING without run()
\* ending, and the next successful attempt puts it back in RUNNING, reading
\* from the new connection.
C5_EOFReconnects ==
    /\ [][(eofs' = eofs + 1 /\ ~stop_called.ModeSIngester)
            => (pc'.ModeSIngester = "connecting" /\ raised'.ModeSIngester = "")]_vars
    /\ [][(eofs >= 1 /\ pc.ModeSIngester = "connecting" /\ opened' = opened + 1
             /\ ~stop_called.ModeSIngester)
            => (pc'.ModeSIngester = "reading" /\ reader' = opened + 1)]_vars
    /\ (eofs >= 1 /\ pc.ModeSIngester \in {"connecting", "backoff"})
            ~> ((pc.ModeSIngester = "reading" /\ reader = opened)
                \/ stop_called.ModeSIngester)

\* C5 witness: the remote closed the first connection and the loop is RUNNING
\* again on the second one
C5_Witness ==
    /\ eofs = 1
    /\ opened = 2
    /\ reader = 2
    /\ pc.ModeSIngester = "reading"
    /\ ~stop_called.ModeSIngester

\* C6: every item the correlator takes is the head of the queue, and in the
\* same step update_cb is invoked exactly once, with the whole live table as
\* it is after the item was applied.
C6_CallbackPerItem ==
    [][Len(taken') = Len(taken) + 1 =>
        /\ taken' = Append(taken, Head(in_queue))
        /\ update_calls' = update_calls + 1
        /\ snapshot' = {aircraft'[a].value : a \in DOMAIN aircraft'}]_vars

\* C7: a published snapshot holds only records whose address had an item
\* processed within the inactivity window, and every item processed for an
\* address (whatever its variant) restarts that address's window: its record
\* is in the live table, stamped with the time of the step.
C7_InactivityWindow ==
    [][Len(taken') = Len(taken) + 1 =>
        LET a == Head(in_queue).icao_address IN
        /\ update_calls' # update_calls =>
              \A ac \in snapshot' :
                  /\ ac.icao_address \in DOMAIN aircraft'
                  /\ now - aircraft'[ac.icao_address].timestamp <= AIRCRAFT_EXPIRY_SECS
        /\ a # None =>
              /\ a \in DOMAIN aircraft'
              /\ aircraft'[a].timestamp = now]_vars

\* C8: the live table's inactivity window is longer than every field TTL, so
\* a record that has dropped out of the live table has no unexpired field.
C8_WindowOutlivesFields ==
    /\ \A f \in ExpiringFields : AIRCRAFT_EXPIRY_SECS > Aircraft(1)[f].expiry_secs
    /\ \A a \in DOMAIN aircraft :
          LeakyDictionary_stale(aircraft, a, AIRCRAFT_EXPIRY_SECS, now) =>
              \A f \in ExpiringFields : Aircraft_get(aircraft[a].value, f, now) = None

\* C9: applying an altitude reply (a first time, or the same one again)
\* leaves exactly one Aircraft record for its address, carrying its altitude.
C9_AltitudeReplyTwice ==
    [][(Len(taken') = Len(taken) + 1
          /\ Head(in_queue).cls = "SurveillanceReplyAltitudeMessage") =>
        LET m == Head(in_queue)
            a == m.icao_address
        IN  /\ a \in DOMAIN aircraft'
            /\ Cardinality({k \in DOMAIN aircraft' : aircraft'[k].value.icao_address = a}) = 1
            /\ Aircraft_get(aircraft'[a].value, "altitude", now) = m.baro_pressure_altitude]_vars

\* C10: processing a flight-plan record with address a makes it the side
\* table's entry for a; a live Aircraft record for a gets it as its
\* flight-plan reference and keeps its expiring fields as they were.
C10_FlightPlanReplaced ==
    [][(Len(taken') = Len(taken) + 1
          /\ Head(in_queue).cls = "Flight"
          /\ Head(in_queue).icao_address # None) =>
        LET m == Head(in_queue)
            a == m.icao_address
            live == ~LeakyDictionary_getitem_KeyError(aircraft, a, AIRCRAFT_EXPIRY_SECS, now)
        IN  /\ flight_plans' # Missing
            /\ a \in DOMAIN flight_plans'
            /\ flight_plans'[a] = m
            /\ live =>
                  /\ a \in DOMAIN aircraft'
                  /\ aircraft'[a].value.flight_plan = m
                  /\ \A f \in ExpiringFields :
                        aircraft'[a].value[f] = aircraft[a].value[f]]_vars

\* C11: processing a flight-plan record with address a while no live Aircraft
\* record for a exists stores it in the side table and creates no Aircraft
\* record: the addresses of the live table, and of the snapshot published by
\* that step, are the ones that were live before the step.
C11_FlightPlanOnlySideTable ==
    [][(Len(taken') = Len(taken) + 1
          /\ Head(in_queue).cls = "Flight"
          /\ Head(in_queue).icao_address # None
          /\ LeakyDictionary_getitem_KeyError(aircraft, Head(in_queue).icao_address,
                                              AIRCRAFT_EXPIRY_SECS, now)) =>
        LET m == Head(in_queue)
            a == m.icao_address
            live == {k \in DOMAIN aircraft :
                        ~LeakyDictionary_stale(aircraft, k, AIRCRAFT_EXPIRY_SECS, now)}
        IN  /\ flight_plans' # Missing
            /\ a \in DOMAIN flight_plans'
            /\ flight_plans'[a] = m
            /\ {k \in DOMAIN aircraft' :
                   ~LeakyDictionary_stale(aircraft', k, AIRCRAFT_EXPIRY_SECS, now)} = live
            /\ update_calls' # update_calls =>
                  {ac.icao_address : ac \in snapshot'} = live]_vars

C13_AddresslessFlightDiscarded ==
    [][(Len(taken') = Len(taken) + 1
          /\ Head(in_queue).cls = "Flight"
          /\ Head(in_queue).icao_address = None) =>
        /\ aircraft' = aircraft
        /\ flight_plans' = flight_plans
        /\ raised' = raised
        /\ pc'.Correlator \in {"getting", "stopped"}]_vars

\* C13 witness: the correlator took a flight-plan record without an address
\* and is waiting for the next item
C13_Witness ==
    /\ taken # <<>>
    /\ taken[Len(taken)].cls = "Flight"
    /\ taken[Len(taken)].icao_address = None
    /\ pc.Correlator = "getting"
    /\ raised.Correlator = ""

C15_PairResolves ==
    [][\A a \in Addrs, m \in CPRMessages : Decoder_position(a, m) =>
        LET noref == LeakyDictionary_getitem_KeyError(
                         prior_positions, a, PRIOR_POSITION_EXPIRY_SECS, now)
            held(oe) == ~LeakyDictionary_getitem_KeyError(
                            prior_cpr_msgs[oe + 1], a, PRIOR_CPR_EXPIRY_SECS, now)
        IN  noref =>
              /\ (~held(0) /\ ~held(1)) => located'[1].result = Returned(None)
              /\ held(1 - m.oe) =>
                    /\ located'[1].result.raised = ""
                    /\ located'[1].result.position # None]_vars

\* C15 as amended: the first call of a pair returns no position and keeps the
\* message under its parity; the second call, of the complementary parity
\* inside the pairing TTL, returns a resolved position and keeps it as the
\* reference when the two messages have the same type code family and the
\* same latitude zone; it returns no position when the zones differ and
\* raises DecodingError when the families differ, and holds no reference
\* afterwards.
C15_PairResolvesWhenDecodable ==
    [][\A a \in Addrs, m \in CPRMessages : Decoder_position(a, m) =>
        LET noref == LeakyDictionary_getitem_KeyError(
                         prior_positions, a, PRIOR_POSITION_EXPIRY_SECS, now)
            held(oe) == ~LeakyDictionary_getitem_KeyError(
                            prior_cpr_msgs[oe + 1], a, PRIOR_CPR_EXPIRY_SECS, now)
            result == located'[1].result
            ref_after == ~LeakyDictionary_getitem_KeyError(
                             prior_positions', a, PRIOR_POSITION_EXPIRY_SECS, now)
        IN  noref =>
              /\ (~held(0) /\ ~held(1)) =>
                    /\ result = Returned(None)
                    /\ a \in DOMAIN prior_cpr_msgs'[m.oe + 1]
                    /\ prior_cpr_msgs'[m.oe + 1][a].value.msg = m
                    /\ ~ref_after
              /\ held(1 - m.oe) =>
                    LET prior == prior_cpr_msgs[2 - m.oe][a].value.msg IN
                    IF prior.tc # m.tc
                    THEN result.raised = "DecodingError" /\ ~ref_after
                    ELSE IF prior.nl # m.nl
                    THEN result = Returned(None) /\ ~ref_after
                    ELSE /\ result.raised = ""
                         /\ result.position # None
                         /\ ref_after
                         /\ prior_positions'[a].value = result.position]_vars

\* C15 witness: the last call held no reference, found the complementary
\* message and resolved a position
C15_Witness ==
    /\ located # <<>>
    /\ ~located[1].had_ref
    /\ located[1].result.position # None

\* C16: reading an expiring field never raises, and once the field has been
\* set the read returns the stored value iff the time elapsed since the most
\* recent set is less than the field's TTL, and None otherwise (already at
\* an elapsed time equal to the TTL).
C16_PresentIffWithinTTL ==
    [][\A obj \in Instances, name \in DOMAIN FIELDS : Lifetimes_get(obj, name) =>
        LET got == lifetimes_got'[1].result
            set_at == lifetimes_set_at[obj][name]
        IN  /\ got.raised = ""
            /\ set_at # None =>
                  got.value = IF now - set_at < FIELDS[name]
                              THEN lifetimes_value[obj][name] ELSE None]_vars

\* C17: a lookup of key k by index, get or membership finds the value most
\* recently inserted for k iff that insertion is less than the TTL old; a
\* key never inserted, or whose last insertion is not less than the TTL old,
\* gives KeyError, None and False.
C17_LookupIffYoungerThanTTL ==
    [][\A key \in LeakyKeys :
        LET fresh == /\ leaky_inserted[key] # <<>>
                     /\ now - leaky_inserted[key][1].at < LEAKY_EXPIRY_SECS
            v == leaky_inserted[key][1].value
        IN  /\ Leaky_getitem(key) =>
                  leaky_got'[1] = IF fresh THEN LookupReturns("getitem", key, v)
                                  ELSE LookupRaises("getitem", key, "KeyError")
            /\ Leaky_get(key) =>
                  leaky_got'[1] = LookupReturns("get", key, IF fresh THEN v ELSE None)
            /\ Leaky_contains(key) =>
                  leaky_got'[1] = ContainsReturns(key, fresh)]_vars

\* C17 as amended: a lookup of key k by index, get or membership finds the
\* value most recently inserted for k iff that insertion is at most the TTL
\* old (an entry whose age equals the TTL is still found); otherwise it gives
\* KeyError, None and False.
C17_LookupIffNotOlderThanTTL ==
    [][\A key \in LeakyKeys :
        LET fresh == /\ leaky_inserted[key] # <<>>
                     /\ now - leaky_inserted[key][1].at <= LEAKY_EXPIRY_SECS
            v == leaky_inserted[key][1].value
        IN  /\ Leaky_getitem(key) =>
                  leaky_got'[1] = IF fresh THEN LookupReturns("getitem", key, v)
                                  ELSE LookupRaises("getitem", key, "KeyError")
            /\ Leaky_get(key) =>
                  leaky_got'[1] = LookupReturns("get", key, IF fresh THEN v ELSE None)
            /\ Leaky_contains(key) =>
                  leaky_got'[1] = ContainsReturns(key, fresh)]_vars

\* C17 witness: an index lookup has just returned the value of an entry whose
\* age equals the TTL
C17_Witness ==
    /\ leaky_got # <<>>
    /\ leaky_got[1].op = "getitem"
    /\ leaky_got[1].raised = ""
    /\ leaky_inserted[leaky_got[1].key] # <<>>
    /\ leaky_got[1].value = leaky_inserted[leaky_got[1].key][1].value
    /\ now - leaky_inserted[leaky_got[1].key][1].at = LEAKY_EXPIRY_SECS

\* C18: every (object, field) pair has its own expiry.  Assigning a field
\* changes the expiration and the value of that field of that object only
\* (no other field, no other instance), and a field that has been set reads
\* as its value until its own TTL has passed since its own last set and as
\* None afterwards, whatever happened to the other fields.
C18_ExpiryPerObjectAndField ==
    /\ [][\A obj \in Instances, name \in DOMAIN FIELDS, value \in LifetimeValues :
            Lifetimes_set(obj, name, value) =>
                \A o \in Instances, f \in DOMAIN FIELDS :
                    (o # obj \/ f # name) =>
                        /\ Lifetimes_expirations(lifetimes_expirations'[o])[f]
                              = Lifetimes_expirations(lifetimes_expirations[o])[f]
                        /\ lifetimes_value'[o][f] = lifetimes_value[o][f]]_vars
    /\ [][\A obj \in Instances, name \in DOMAIN FIELDS :
            (Lifetimes_get(obj, name) /\ lifetimes_set_at[obj][name] # None) =>
                lifetimes_got'[1].result =
                    GetterReturns(IF now - lifetimes_set_at[obj][name] <= FIELDS[name]
                                  THEN lifetimes_value[obj][name] ELSE None)]_vars

\* C18 witness: both fields of one instance were set at the same time, a
\* field of another instance was set later, and the short-lived field of the
\* first has just been read as None while its longer-lived field is still
\* within its TTL
C18_Witness ==
    /\ lifetimes_set_at[1].position # None
    /\ lifetimes_set_at[1].speed = lifetimes_set_at[1].position
    /\ \E o \in Instances \ {1} :
          /\ lifetimes_set_at[o].position # None
          /\ lifetimes_set_at[o].position > lifetimes_set_at[1].position
          /\ now - lifetimes_set_at[o].position <= FIELDS.position
    /\ now - lifetimes_set_at[1].position > FIELDS.position
    /\ now - lifetimes_set_at[1].speed <= FIELDS.speed
    /\ lifetimes_got = <<[obj |-> 1, name |-> "position", result |-> GetterReturns(None)]>>

\* C19: a non-empty line that lacks the leading or the trailing framing byte
\* (whatever its length), or that holds non-ASCII bytes, is skipped: step()
\* raises nothing, submits nothing, leaves the remembered errors and the
\* position disambiguator as they were, and the loop goes on reading unless
\* stop() was called.
C19_UnframedLineSkipped ==
    [][\A line \in [kind : {"noframe", "star", "nonascii"}] :
        ModeSIngester_step(line) =>
            /\ raised' = raised
            /\ in_queue' = in_queue
            /\ errors_seen' = errors_seen
            /\ UNCHANGED <<prior_positions, prior_cpr_msgs>>
            /\ pc'.ModeSIngester = IF running.ModeSIngester THEN "reading" ELSE "stopped"]_vars

\* C20: no framed line ends the loop: whatever _decode does with the
\* payload, step() raises nothing and the loop goes on to the next read
\* unless stop() was called; a payload that does not decode submits nothing.
C20_FramedLineNeverFatal ==
    [][\A line \in Lines :
        (line.kind \in {"undecodable", "nothex", "badaltitude", "message"}
            /\ ModeSIngester_step(line)) =>
            /\ raised' = raised
            /\ pc'.ModeSIngester = IF running.ModeSIngester THEN "reading" ELSE "stopped"
            /\ line.kind # "message" => in_queue' = in_queue]_vars

\* C21: a DecodingError is logged once per distinct text: the first
\* occurrence of a text is logged and remembered, a later one is not logged,
\* and a text stays remembered when the loop reconnects; either way step()
\* raises nothing, submits nothing and the loop goes on.
C21_DecodingErrorLoggedOnce ==
    /\ [][\A line \in [kind : {"undecodable"}, error : ErrTexts] :
            ModeSIngester_step(line) =>
                /\ raised' = raised
                /\ in_queue' = in_queue
                /\ pc'.ModeSIngester = Runnable_loop(running.ModeSIngester, "reading")
                /\ line.error \in errors_seen'
                /\ decoding_logged'[line.error] =
                      IF line.error \in errors_seen THEN decoding_logged[line.error]
                      ELSE decoding_logged[line.error] + 1
                /\ \A other \in ErrTexts \ {line.error} :
                      decoding_logged'[other] = decoding_logged[other]]_vars
    /\ [][errors_seen \subseteq errors_seen']_vars
    /\ [](\A error \in ErrTexts :
            /\ decoding_logged[error] <= 1
            /\ decoding_logged[error] = 1 <=> error \in errors_seen)

\* C21 witness: a text was logged once, then raised again and not logged, and
\* the loop is RUNNING on its second connection with the text remembered
C21_Witness ==
    \E error \in ErrTexts :
        /\ decoding_logged[error] = 1
        /\ error \in decoding_suppressed
        /\ error \in errors_seen
        /\ eofs = 1
        /\ reader = 2
        /\ pc.ModeSIngester = "reading"

\* C22: if step() raises QueueShutDown after stop() has been called on the
\* runnable, run() does not propagate it: the task goes through teardown()
\* and run() returns normally.
C22_ShutdownAfterStopIsClean ==
    [][(Correlator_step_QueueShutDown /\ stop_called.Correlator) =>
        /\ pc'.Correlator = "stopped"
        /\ raised'.Correlator = ""]_vars

\* C23: a task that observes the shut-down queue while stop() has not been
\* called on it ends its run() with QueueShutDown: the correlator when its
\* get() meets the shut-down, empty queue, the ingester when it submits a
\* decoded message to the shut-down queue.
C23_ShutdownWithoutStopPropagates ==
    /\ [][(Correlator_step_QueueShutDown /\ ~stop_called.Correlator) =>
            (pc'.Correlator = "failed" /\ raised'.Correlator = "QueueShutDown")]_vars
    /\ [][(~dropped /\ dropped' /\ ~stop_called.ModeSIngester) =>
            (pc'.ModeSIngester = "failed"
                /\ raised'.ModeSIngester = "QueueShutDown")]_vars

\* C24: for every integer v in [0, 2^24 - 1], ICAOAddress(v) equals the
\* ICAOAddress built from its six-digit upper-case hex string, equals v and
\* equals that string; str() of it is exactly six upper-case hex digits
\* ("000000" for 0, "ABCDEF" for 0xABCDEF); constructing from a value
\* outside the range raises.
C24_AddressRoundTrip ==
    /\ \A i \in DOMAIN address_from_int :
          LET a == address_from_int[i] IN
          IF ICAO_MIN <= a.arg /\ a.arg <= ICAO_MAX
          THEN /\ a.raised = ""
               /\ ICAOAddress_eq_int(a.value, a.arg)
               /\ Len(ICAOAddress_str(a.value)) = 6
               /\ \A k \in 1..Len(ICAOAddress_str(a.value)) :
                     \E d \in 1..16 : ICAOAddress_str(a.value)[k] = UpperHex[d]
               /\ ICAOAddress_eq_str(a.value, ICAOAddress_str(a.value))
               /\ ICAOAddress_init_str(ICAOAddress_str(a.value)).raised = ""
               /\ ICAOAddress_eq(a.value,
                                 ICAOAddress_init_str(ICAOAddress_str(a.value)).value)
               /\ a.arg = 0 => ICAOAddress_str(a.value) = <<"0", "0", "0", "0", "0", "0">>
               /\ a.arg = 11259375 =>
                     ICAOAddress_str(a.value) = <<"A", "B", "C", "D", "E", "F">>
          ELSE a.raised = "ValueError"
    /\ \A i \in DOMAIN address_from_int, j \in DOMAIN address_from_str :
          LET a == address_from_int[i]
              b == address_from_str[j]
          IN  /\ (a.raised = "" /\ b.arg = ICAOAddress_str(a.value)) =>
                    (b.raised = "" /\ ICAOAddress_eq(a.value, b.value))
              /\ (int_16(b.arg) # None /\ int_16(b.arg) > ICAO_MAX) =>
                    b.raised = "ValueError"

\* C24 witness: 0xABCDEF was built from the integer and from "ABCDEF"
C24_Witness ==
    /\ address_from_int = <<Constructed(11259375, 11259375)>>
    /\ address_from_str # <<>>
    /\ address_from_str[1].arg = <<"A", "B", "C", "D", "E", "F">>
    /\ address_from_str[1].raised = ""

C27_StopWhileConnecting ==
    /\ [][(~running.ModeSIngester /\ pc.ModeSIngester = "connecting") =>
            /\ pc'.ModeSIngester \in {"connecting", "backoff", "stopped"}
            /\ opened' = opened + 1 =>
                  /\ pc'.ModeSIngester = "stopped"
                  /\ (opened + 1) \in closed'
                  /\ reader' = None
                  /\ writer' = None]_vars
    /\ [][(~running.ModeSIngester /\ pc.ModeSIngester = "backoff") =>
            /\ pc'.ModeSIngester \in {"backoff", "stopped"}
            /\ opened' = opened]_vars
    /\ (~running.ModeSIngester /\ pc.ModeSIngester \in {"connecting", "backoff"})
            ~> (pc.ModeSIngester = "stopped" /\ raised.ModeSIngester = "")

\* C27 witness: after an EOF, stop() came while the second attempt was in
\* flight; the attempt succeeded, its connection was closed by teardown()
\* without a line being read from it, and run() has returned
C27_Witness ==
    /\ stop_called.ModeSIngester
    /\ pc.ModeSIngester = "stopped"
    /\ eofs = 1
    /\ opened = 2
    /\ transitions = 1
    /\ 2 \in closed
    /\ reader = None

\* C28: when the ingestion loop has stopped (run() returned after a stop),
\* the writer of the connection it held has been closed and the reader and
\* writer handles are both None.
C28_StoppedClosesSocket ==
    /\ [](pc.ModeSIngester = "stopped" =>
            /\ reader = None
            /\ writer = None
            /\ opened > 0 => opened \in closed)
    /\ [][(pc.ModeSIngester # "stopped" /\ pc'.ModeSIngester = "stopped"
             /\ opened' = opened /\ writer # None) =>
            writer \in closed']_vars

\* C28 witness: the loop connected, read from the connection, was stopped,
\* and run() has returned with that connection closed
C28_Witness ==
    /\ pc.ModeSIngester = "stopped"
    /\ stop_called.ModeSIngester
    /\ opened = 1
    /\ transitions = 1
    /\ closed = {1}
    /\ writer = None

\* C29: the ingestion loop holds at most one open connection at any time:
\* a connection replaced after an EOF has had its writer closed by then, and
\* once the loop is STOPPED every connection it opened has been closed.
C29_AtMostOneOpenConnection ==
    /\ Cardinality({handle \in 1..opened : handle \notin closed}) <= 1
    /\ pc.ModeSIngester = "stopped" => \A handle \in 1..opened : handle \in closed

\* C30: whenever run() has ended after setup() completed, by returning after
\* a stop or by propagating an exception step() raised, teardown() has been
\* executed: for the ingestion loop, the writer it held has been closed and
\* both handles are None.
C30_TeardownOnEveryExit ==
    (pc.ModeSIngester \in {"stopped", "failed"} /\ transitions >= 1) =>
        /\ reader = None
        /\ writer = None
        /\ opened \in closed

\* C31: every call of the disambiguator that returns a position stores it as
\* the address's reference position, stamped with the time of the call; and
\* a call made while the address's reference is unexpired returns the
\* position of that one message relative to the reference, without raising,
\* and leaves both parity dictionaries as they were.
C31_ResolutionBecomesReference ==
    [][\A a \in Addrs, m \in CPRMessages : Decoder_position(a, m) =>
        LET had_ref == ~LeakyDictionary_getitem_KeyError(
                           prior_positions, a, PRIOR_POSITION_EXPIRY_SECS, now)
            result == located'[1].result
        IN  /\ result.position # None =>
                  /\ a \in DOMAIN prior_positions'
                  /\ prior_positions'[a] = [timestamp |-> now, value |-> result.position]
            /\ had_ref =>
                  /\ result = pyModeS_adsb_position_with_ref(m, prior_positions[a].value)
                  /\ result.raised = ""
                  /\ result.position # None
                  /\ prior_cpr_msgs' = prior_cpr_msgs]_vars

\* C31 witness: the last call found a reference stored by an earlier call at
\* an earlier time, while a message was still pending under a parity, and
\* returned a position that is now the reference, stamped anew
C31_Witness ==
    /\ located # <<>>
    /\ located[1].had_ref
    /\ located[1].result.position # None
    /\ \E oe \in {0, 1} : located[1].icao_address \in DOMAIN prior_cpr_msgs[oe + 1]
    /\ now > 0
    /\ prior_positions[located[1].icao_address].timestamp = now

\* C32: a call of the disambiguator decodes against the reference (the local
\* decode) only when the address holds a reference stored at most 648 s
\* before; and a call that, without a reference, returns a position or
\* raises has combined the message with the one held for the same address
\* under the complementary parity and stored at most 10 s before: a message
\* held longer, held for another address or held under the message's own
\* parity is never the one combined.
C32_OnlyUnexpiredSameAddress ==
    [][(now' = now /\ located' # <<>>) =>
        LET a == located'[1].icao_address
            m == located'[1].msg
            result == located'[1].result
            complementary == prior_cpr_msgs[IF m.oe = 0 THEN 2 ELSE 1]
            pending == complementary[a].value.msg
        IN  Decoder_position(a, m) =>
            /\ located'[1].had_ref =>
                  /\ a \in DOMAIN prior_positions
                  /\ now - prior_positions[a].timestamp <= 648
            /\ (~located'[1].had_ref /\ result # Returned(None)) =>
                  /\ a \in DOMAIN complementary
                  /\ now - complementary[a].timestamp <= 10
                  /\ pending.oe # m.oe
                  /\ result = IF m.oe = 0 THEN pyModeS_adsb_position(m, pending)
                              ELSE pyModeS_adsb_position(pending, m)]_vars

\* C32 witness: the last call found the address's reference expired and its
\* complementary message expired, while a complementary message of another
\* address, stored within the last 10 s, was held; it returned no position
C32_Witness ==
    /\ located # <<>>
    /\ located[1].expired = {"reference", "pending"}
    /\ located[1].result = Returned(None)
    /\ \E b \in LocateAddrs \ {located[1].icao_address} :
          LET complementary == prior_cpr_msgs[IF located[1].msg.oe = 0 THEN 2 ELSE 1] IN
          /\ b \in DOMAIN complementary
          /\ now - complementary[b].timestamp <= 10

\* C33: a call of the disambiguator made while the address has neither a
\* reference stored within the last 648 s nor a complementary message stored
\* within the last 10 s returns no position without raising, leaves the
\* message with the time of the call under the message's own parity, and
\* changes nothing else: the dictionary of references, the dictionary of the
\* other parity and the entries of every other address are as before.
C33_UnpairedMessageStored ==
    [][(now' = now /\ located' # <<>>) =>
        LET a == located'[1].icao_address
            m == located'[1].msg
            own == m.oe + 1
            opposite == IF m.oe = 0 THEN 2 ELSE 1
            no_reference == a \in DOMAIN prior_positions =>
                                now - prior_positions[a].timestamp > 648
            no_complementary == a \in DOMAIN prior_cpr_msgs[opposite] =>
                                now - prior_cpr_msgs[opposite][a].timestamp > 10
        IN  (Decoder_position(a, m) /\ no_reference /\ no_complementary) =>
            /\ located'[1].result = Returned(None)
            /\ a \in DOMAIN prior_cpr_msgs'[own]
            /\ prior_cpr_msgs'[own][a] =
                   [timestamp |-> now, value |-> [timestamp |-> now, msg |-> m]]
            /\ prior_positions' = prior_positions
            /\ prior_cpr_msgs'[opposite] = prior_cpr_msgs[opposite]
            /\ DOMAIN prior_cpr_msgs'[own] = DOMAIN prior_cpr_msgs[own] \cup {a}
            /\ \A b \in DOMAIN prior_cpr_msgs[own] \ {a} :
                  prior_cpr_msgs'[own][b] = prior_cpr_msgs[own][b]]_vars

\* C33 as amended: the same, except that an expired reference and an expired
\* complementary message of the address, where the call finds one, are
\* removed from their dictionaries; every other entry of the two, and every
\* other entry of the message's own parity, is as before.
C33_UnpairedMessageStoredExpiredPurged ==
    [][(now' = now /\ located' # <<>>) =>
        LET a == located'[1].icao_address
            m == located'[1].msg
            own == m.oe + 1
            opposite == IF m.oe = 0 THEN 2 ELSE 1
            no_reference == a \in DOMAIN prior_positions =>
                                now - prior_positions[a].timestamp > 648
            no_complementary == a \in DOMAIN prior_cpr_msgs[opposite] =>
                                now - prior_cpr_msgs[opposite][a].timestamp > 10
        IN  (Decoder_position(a, m) /\ no_reference /\ no_complementary) =>
            /\ located'[1].result = Returned(None)
            /\ a \in DOMAIN prior_cpr_msgs'[own]
            /\ prior_cpr_msgs'[own][a] =
                   [timestamp |-> now, value |-> [timestamp |-> now, msg |-> m]]
            /\ DOMAIN prior_positions' = DOMAIN prior_positions \ {a}
            /\ \A b \in DOMAIN prior_positions' : prior_positions'[b] = prior_positions[b]
            /\ DOMAIN prior_cpr_msgs'[opposite] = DOMAIN prior_cpr_msgs[opposite] \ {a}
            /\ \A b \in DOMAIN prior_cpr_msgs'[opposite] :
                  prior_cpr_msgs'[opposite][b] = prior_cpr_msgs[opposite][b]
            /\ DOMAIN prior_cpr_msgs'[own] = DOMAIN prior_cpr_msgs[own] \cup {a}
            /\ \A b \in DOMAIN prior_cpr_msgs[own] \ {a} :
                  prior_cpr_msgs'[own][b] = prior_cpr_msgs[own][b]]_vars

\* C33 witness: the last call found no reference and the complementary
\* message of its address expired, kept its message under its own parity
\* and returned no position, while another address holds a reference and a
\* message under that same parity
C33_Witness ==
    /\ located # <<>>
    /\ located[1].expired = {"pending"}
    /\ located[1].result = Returned(None)
    /\ LET a == located[1].icao_address
           m == located[1].msg
       IN  /\ a \in DOMAIN prior_cpr_msgs[m.oe + 1]
           /\ prior_cpr_msgs[m.oe + 1][a].value.msg = m
           /\ prior_cpr_msgs[m.oe + 1][a].timestamp = now
           /\ a \notin DOMAIN prior_cpr_msgs[IF m.oe = 0 THEN 2 ELSE 1]
           /\ \E b \in LocateAddrs \ {a} :
                 /\ b \in DOMAIN prior_positions
                 /\ b \in DOMAIN prior_cpr_msgs[m.oe + 1]

C35_AltitudeOnlyWhenBarometric ==
    [][(Len(taken') = Len(taken) + 1
          /\ Head(in_queue).cls = "ADSBAirbornePositionMessage") =>
        LET m == Head(in_queue)
            a == m.icao_address
            before == IF LeakyDictionary_getitem_KeyError(
                             aircraft, a, AIRCRAFT_EXPIRY_SECS, now)
                      THEN Aircraft(a) ELSE aircraft[a].value
        IN  /\ a \in DOMAIN aircraft'
            /\ aircraft'[a].value.position.value = m.position
            /\ aircraft'[a].value.position.expires_after = now + FIELD_EXPIRY_SECS
            /\ IF m.altitude_type = "BARO_PRESSURE"
               THEN /\ aircraft'[a].value.altitude.value = m.altitude
                    /\ aircraft'[a].value.altitude.expires_after = now + FIELD_EXPIRY_SECS
               ELSE aircraft'[a].value.altitude = before.altitude]_vars

\* C36: a step that takes a CommBReply leaves the Aircraft record of its
\* address in the live table with each of altitude, squawk and callsign that
\* the message carries set to the message's value at the time of the step;
\* each of the three the message does not carry, and ground speed, track,
\* vertical speed, position and the flight plan, have the value and the
\* expiry instant the record had before the step (those of a new record, if
\* the step created it).
C36_CommBReplySetsPresentFields ==
    [][(Len(taken') = Len(taken) + 1 /\ Head(in_queue).cls = "CommBReply") =>
        LET m == Head(in_queue)
            a == m.icao_address
            before == IF LeakyDictionary_getitem_KeyError(
                             aircraft, a, AIRCRAFT_EXPIRY_SECS, now)
                      THEN Aircraft(a) ELSE aircraft[a].value
            carried == [altitude |-> m.altitude, squawk |-> m.identity_code,
                        callsign |-> m.callsign]
        IN  /\ a \in DOMAIN aircraft'
            /\ \A field \in DOMAIN carried :
                  IF carried[field] # None
                  THEN /\ aircraft'[a].value[field].value = carried[field]
                       /\ aircraft'[a].value[field].expires_after
                              = now + aircraft'[a].value[field].expiry_secs
                  ELSE aircraft'[a].value[field] = before[field]
            /\ \A field \in {"ground_speed", "track", "vertical_speed", "position",
                             "flight_plan"} :
                  aircraft'[a].value[field] = before[field]]_vars

C38_ValuesSweepsWithoutRefresh ==
    [][Leaky_values =>
        LET unexpired == {key \in DOMAIN leaky :
                             now - leaky[key].timestamp <= LEAKY_EXPIRY_SECS}
        IN  /\ leaky_got'[1].raised = ""
            /\ leaky_got'[1].values = {leaky[key].value : key \in unexpired}
            /\ DOMAIN leaky' = unexpired
            /\ \A key \in unexpired : leaky'[key] = leaky[key]]_vars

\* C38 witness: the last call was values(), made when one key's entry had
\* expired and another's, inserted before the call, had not: it returned the
\* value of the second, which is still stored with its insertion time, and
\* the first is gone
C38_Witness ==
    /\ leaky_got # <<>>
    /\ leaky_got[1].op = "values"
    /\ \E gone \in LeakyKeys, kept \in LeakyKeys :
          /\ leaky_inserted[gone] # <<>>
          /\ now - leaky_inserted[gone][1].at > LEAKY_EXPIRY_SECS
          /\ gone \notin DOMAIN leaky
          /\ kept \in DOMAIN leaky
          /\ leaky[kept].timestamp < now
          /\ leaky_got[1].values = {leaky[kept].value}

\* C39: decoding a reply of downlink format 20 or 21 raises only when a
\* register other than BDS 2,0, BDS 1,0 and EMPTY is among those identified;
\* a reply that decodes has a callsign iff BDS 2,0 is among them; and a reply
\* for which no register is identified decodes, with its altitude or its
\* identity code set.
C39_CommBFailsOnlyOnUnknownRegister ==
    [][\A input \in CommBInputs : ModeSIngester_decode_CommBReply(input) =>
        LET result == commb_decoded'[1].result
            identified == {input.inferred.names[i] : i \in DOMAIN input.inferred.names}
        IN  /\ result.raised # "" => identified \ {"BDS20", "BDS10", "EMPTY"} # {}
            /\ result.raised = "" =>
                  (result.reply.callsign # {} <=> "BDS20" \in identified)
            /\ (identified = {} /\ (input.df = 21 \/ input.altitude # None)) =>
                  /\ result.raised = ""
                  /\ result.reply.altitude # None \/ result.reply.identity_code # None]_vars

=============================================================================
